---- MODULE Spec2Model ----
(***************************************************************************)
(* A model of pyiridium9602: the host protocol engine                      *)
(* (pyiridium.IridiumCommunicator), its wire codec, and the modem          *)
(* emulator (pyiridium_server.IridiumServer).                              *)
(*                                                                         *)
(* Bytes are integers 0..255 and byte strings are sequences of them, so    *)
(* that slicing, searching and checksumming are computed as the code       *)
(* computes them.  Python offsets are 0-based; the helpers below keep      *)
(* that convention and convert at the SubSeq boundary.                     *)
(***************************************************************************)
EXTENDS Integers, Sequences, FiniteSets, TLC

(***************************************************************************)
(* Command catalog (class Command).                                        *)
(***************************************************************************)
OK == <<79, 75>>                                             \* b'OK'
RING == <<83, 66, 68, 82, 73, 78, 71>>                       \* b'SBDRING'
READY == <<82, 69, 65, 68, 89>>                              \* b'READY'
PING == <<65, 84>>                                           \* b'AT'
ECHO_ON == <<65, 84, 69, 49>>                                \* b'ATE1'
ECHO_OFF == <<65, 84, 69, 48>>                               \* b'ATE0'
FLOW_CONTROL_ON == <<65, 84, 38, 75, 51>>                    \* b'AT&K3'
FLOW_CONTROL_OFF == <<65, 84, 38, 75, 48>>                   \* b'AT&K0'
RING_ALERTS_ON == <<65, 84, 43, 83, 66, 68, 77, 84, 65, 61, 49>>   \* b'AT+SBDMTA=1'
RING_ALERTS_OFF == <<65, 84, 43, 83, 66, 68, 77, 84, 65, 61, 48>>  \* b'AT+SBDMTA=0'
SYSTEM_TIME == <<65, 84, 45, 77, 83, 83, 84, 77>>            \* b'AT-MSSTM'
SERIAL_NUMBER == <<65, 84, 43, 67, 71, 83, 78>>              \* b'AT+CGSN'
SIGNAL_QUALITY == <<65, 84, 43, 67, 83, 81>>                 \* b'AT+CSQ'
CHECK_RING == <<65, 84, 43, 67, 82, 73, 83>>                 \* b'AT+CRIS'
CLEAR_BUFFER == <<65, 84, 43, 83, 66, 68, 68>>               \* b'AT+SBDD'
CLEAR_MO_BUFFER == <<65, 84, 43, 83, 66, 68, 68, 48>>        \* b'AT+SBDD0'
CLEAR_MT_BUFFER == <<65, 84, 43, 83, 66, 68, 68, 49>>        \* b'AT+SBDD1'
CLEAR_BOTH_BUFFERS == <<65, 84, 43, 83, 66, 68, 68, 50>>     \* b'AT+SBDD2'
SESSION == <<65, 84, 43, 83, 66, 68, 73, 88>>                \* b'AT+SBDIX'
READ_BINARY == <<65, 84, 43, 83, 66, 68, 82, 66>>            \* b'AT+SBDRB'
READ_BINARY_RECEIVE == <<65, 84, 43, 83, 66, 68, 82, 66, 13>>  \* b'AT+SBDRB\r'
WRITE_BINARY == <<65, 84, 43, 83, 66, 68, 87, 66, 61>>       \* b'AT+SBDWB='

CR == <<13>>                                                 \* b'\r'
LF == <<10>>                                                 \* b'\n'
CRLF == <<13, 10>>                                           \* b'\r\n'
SBDIX_TAG == <<43, 83, 66, 68, 73, 88, 58>>                  \* b'+SBDIX:'
CRIS_TAG == <<43, 67, 82, 73, 83, 58>>                       \* b'+CRIS:'
CSQ_TAG == <<43, 67, 83, 81, 58>>                            \* b'+CSQ:'

\* Python's None, for the pending-command register: a value that is no byte
\* string (TLC compares it with byte strings, so it is a sequence too).
None == <<-1>>

(***************************************************************************)
(* Python bytes primitives used by the codec and the engine.               *)
(***************************************************************************)
Min(a, b) == IF a < b THEN a ELSE b

Max(a, b) == IF a > b THEN a ELSE b

\* s[a:b] for 0 <= a, 0 <= b (out-of-range offsets are clamped, as in Python).
Slice(s, a, b) == SubSeq(s, Min(a, Len(s)) + 1, Min(b, Len(s)))

\* s[a:]
SliceFrom(s, a) == Slice(s, a, Len(s))

\* sub occurs in s at 0-based offset i
StartsAt(sub, s, i) ==
    /\ i >= 0
    /\ i + Len(sub) <= Len(s)
    /\ \A k \in 1..Len(sub) : s[i + k] = sub[k]

\* s.startswith(sub)
StartsWith(s, sub) == StartsAt(sub, s, 0)

\* s.endswith(sub)
EndsWith(s, sub) == StartsAt(sub, s, Len(s) - Len(sub))

\* sub in s
Contains(sub, s) == \E i \in 0..(Len(s) - Len(sub)) : StartsAt(sub, s, i)

\* s.find(sub): the lowest offset, or -1
Find(sub, s) ==
    IF Contains(sub, s)
    THEN CHOOSE i \in 0..(Len(s) - Len(sub)) :
            /\ StartsAt(sub, s, i)
            /\ \A j \in 0..(i - 1) : ~StartsAt(sub, s, j)
    ELSE -1

\* ASCII whitespace, as bytes.strip() sees it
IsSpace(b) == b \in {9, 10, 11, 12, 13, 32}

RECURSIVE LStrip(_)
LStrip(s) == IF s # <<>> /\ IsSpace(Head(s)) THEN LStrip(Tail(s)) ELSE s

RECURSIVE RStrip(_)
RStrip(s) ==
    IF s # <<>> /\ IsSpace(s[Len(s)]) THEN RStrip(SubSeq(s, 1, Len(s) - 1)) ELSE s

\* s.strip()
Strip(s) == RStrip(LStrip(s))

\* s.split(sep) for a one-byte separator: a sequence of byte strings
RECURSIVE SplitByte(_, _)
SplitByte(s, sep) ==
    LET i == Find(<<sep>>, s)
    IN  IF i < 0 THEN <<s>>
        ELSE <<Slice(s, 0, i)>> \o SplitByte(SliceFrom(s, i + 1), sep)

\* s.replace(old, b'')
RECURSIVE Remove(_, _)
Remove(s, old) ==
    LET i == Find(old, s)
    IN  IF i < 0 THEN s
        ELSE Slice(s, 0, i) \o Remove(SliceFrom(s, i + Len(old)), old)

\* bytes.splitlines(): breaks at \n, \r and \r\n; no trailing empty line
RECURSIVE SplitLines(_)
SplitLines(s) ==
    IF s = <<>> THEN <<>>
    ELSE LET brk == {i \in 1..Len(s) : s[i] \in {10, 13}}
         IN  IF brk = {} THEN <<s>>
             ELSE LET i == CHOOSE x \in brk : \A y \in brk : x <= y
                      n == IF s[i] = 13 /\ i < Len(s) /\ s[i + 1] = 10
                           THEN i + 1 ELSE i
                  IN  <<SubSeq(s, 1, i - 1)>> \o SplitLines(SubSeq(s, n + 1, Len(s)))

IsDigit(b) == b \in 48..57

RECURSIVE DigitsValue(_)
DigitsValue(s) ==
    IF s = <<>> THEN 0
    ELSE 10 * DigitsValue(SubSeq(s, 1, Len(s) - 1)) + (s[Len(s)] - 48)

\* int(s.decode("utf-8")): surrounding whitespace and one sign are accepted,
\* anything else than decimal digits raises.  [ok, val]
ParseInt(s) ==
    LET t == Strip(s)
        neg == t # <<>> /\ Head(t) = 45
        u == IF t # <<>> /\ Head(t) \in {43, 45} THEN Tail(t) ELSE t
    IN  IF u # <<>> /\ \A k \in 1..Len(u) : IsDigit(u[k])
        THEN [ok |-> TRUE, val |-> IF neg THEN 0 - DigitsValue(u) ELSE DigitsValue(u)]
        ELSE [ok |-> FALSE, val |-> 0]

RECURSIVE DecDigits(_)
DecDigits(n) ==
    IF n < 10 THEN <<48 + n>> ELSE DecDigits(n \div 10) \o <<48 + (n % 10)>>

\* str(n).encode("utf-8") for an integer n
Dec(n) == IF n < 0 THEN <<45>> \o DecDigits(0 - n) ELSE DecDigits(n)

\* sum(s), taken by halves
RECURSIVE ByteSum(_)
ByteSum(s) ==
    IF s = <<>> THEN 0
    ELSE IF Len(s) = 1 THEN s[1]
    ELSE ByteSum(SubSeq(s, 1, Len(s) \div 2)) + ByteSum(SubSeq(s, Len(s) \div 2 + 1, Len(s)))

\* int.from_bytes(s, "big")
RECURSIVE FromBytes(_)
FromBytes(s) ==
    IF s = <<>> THEN 0
    ELSE 256 * FromBytes(SubSeq(s, 1, Len(s) - 1)) + s[Len(s)]

\* n.to_bytes(2, "big")
ToBytes2(n) == <<(n \div 256) % 256, n % 256>>

\* n.to_bytes(4, "big"), for n below 2^32
ToBytes4(n) == <<(n \div 16777216) % 256, (n \div 65536) % 256, (n \div 256) % 256, n % 256>>

\* a checksum that keeps the two high bytes of the four
Checksum_high_bytes(content) == SubSeq(ToBytes4(ByteSum(content)), 1, 2)

\* int(sum(message)).to_bytes(4, 'big')[2:]
Checksum(content) == SubSeq(ToBytes4(ByteSum(content)), 3, 4)

\* str.lower() and str.upper() on a string of code points: the ASCII letters,
\* and U+00DF, which has no single upper-case letter and becomes 'SS'
LowerChar(c) == IF c \in 65..90 THEN c + 32 ELSE c

UpperChar(c) == IF c \in 97..122 THEN <<c - 32>> ELSE IF c = 223 THEN <<83, 83>> ELSE <<c>>

Lower(name) == [k \in 1..Len(name) |-> LowerChar(name[k])]

RECURSIVE Upper(_)
Upper(name) == IF name = <<>> THEN <<>> ELSE UpperChar(Head(name)) \o Upper(Tail(name))

\* str.encode("utf-8") on a string of code points
Utf8Char(c) ==
    IF c < 128 THEN <<c>>
    ELSE IF c < 2048 THEN <<192 + (c \div 64), 128 + (c % 64)>>
    ELSE IF c < 65536
    THEN <<224 + (c \div 4096), 128 + ((c \div 64) % 64), 128 + (c % 64)>>
    ELSE <<240 + (c \div 262144), 128 + ((c \div 4096) % 64), 128 + ((c \div 64) % 64),
           128 + (c % 64)>>

RECURSIVE Utf8(_)
Utf8(text) ==
    IF text = <<>> THEN <<>>
    ELSE IF Len(text) = 1 THEN Utf8Char(text[1])
    ELSE Utf8(SubSeq(text, 1, Len(text) \div 2))
             \o Utf8(SubSeq(text, Len(text) \div 2 + 1, Len(text)))

(***************************************************************************)
(* Wire codec.  A parser returns a record whose field ok is FALSE where    *)
(* the code raises IridiumError.                                           *)
(***************************************************************************)
ParseFail == [ok |-> FALSE]

\* The common head of the text parsers: the stripped token that follows tag,
\* cut at the next newline.  [found, resp]
TagValue(data, tag) ==
    LET resp == Strip(data)
        idx == Find(tag, resp)
        rest == Strip(SliceFrom(resp, idx + Len(tag)))
        endline == Find(LF, rest)
    IN  IF idx < 0 THEN [found |-> FALSE, resp |-> <<>>]
        ELSE [found |-> TRUE,
              resp |-> IF endline >= 0 THEN Strip(Slice(rest, 0, endline)) ELSE rest]

\* bytes.decode("utf-8") succeeds on ASCII; the inputs of this model hold no
\* multi-byte sequences, and a lone byte >= 128 does not decode.
Decodes(s) == \A k \in 1..Len(s) : s[k] < 128

parse_signal_quality(data) ==
    LET t == TagValue(data, CSQ_TAG)
        v == ParseInt(t.resp)
    IN  IF t.found /\ Decodes(t.resp) /\ v.ok
        THEN [ok |-> TRUE, sig |-> v.val]
        ELSE ParseFail

\* tri, sri = (int(v) for v in resp.split(",")[:2])
CheckRingFields(parts) ==
    IF Len(parts) >= 2 /\ ParseInt(parts[1]).ok /\ ParseInt(parts[2]).ok
    THEN [ok |-> TRUE, tri |-> ParseInt(parts[1]).val, sri |-> ParseInt(parts[2]).val]
    ELSE ParseFail

parse_check_ring(data) ==
    LET t == TagValue(data, CRIS_TAG)
    IN  IF t.found /\ Decodes(t.resp) THEN CheckRingFields(SplitByte(t.resp, 44))
        ELSE ParseFail

\* an unpacking that takes the message length and the queue count in the
\* wrong order
SessionFields_swapped(parts) ==
    IF Len(parts) >= 6 /\ \A k \in 1..6 : ParseInt(parts[k]).ok
    THEN [ok |-> TRUE,
          mo_status |-> ParseInt(parts[1]).val,
          mo_msn |-> ParseInt(parts[2]).val,
          mt_status |-> ParseInt(parts[3]).val,
          mt_msn |-> ParseInt(parts[4]).val,
          mt_length |-> ParseInt(parts[6]).val,
          mt_queued |-> ParseInt(parts[5]).val]
    ELSE ParseFail

\* the six integers unpacked from (int(v) for v in resp.split(",")[:6])
SessionFields(parts) ==
    IF Len(parts) >= 6 /\ \A k \in 1..6 : ParseInt(parts[k]).ok
    THEN [ok |-> TRUE,
          mo_status |-> ParseInt(parts[1]).val,
          mo_msn |-> ParseInt(parts[2]).val,
          mt_status |-> ParseInt(parts[3]).val,
          mt_msn |-> ParseInt(parts[4]).val,
          mt_length |-> ParseInt(parts[5]).val,
          mt_queued |-> ParseInt(parts[6]).val]
    ELSE ParseFail

parse_session(data) ==
    LET t == TagValue(data, SBDIX_TAG)
    IN  IF t.found /\ Decodes(t.resp) THEN SessionFields(SplitByte(t.resp, 44))
        ELSE ParseFail

\* The frame that follows the first b'AT+SBDRB\r' found anywhere in data, or
\* data itself when there is none.
AfterEcho(data) ==
    LET idx == Find(READ_BINARY_RECEIVE, data)
    IN  IF idx >= 0 THEN SliceFrom(data, idx + 9) ELSE data

parse_read_binary(data) ==
    LET d == AfterEcho(data)
        msg_len == FromBytes(Slice(d, 0, 2))
        content == Slice(d, 2, msg_len + 2)
        checksum == Slice(d, msg_len + 2, msg_len + 4)
    IN  IF Len(checksum) # 2 THEN ParseFail
        ELSE [ok |-> TRUE, msg_len |-> msg_len, content |-> content,
              checksum |-> checksum, calc_check |-> Checksum(content)]

has_read_binary_data(data) ==
    LET d == AfterEcho(data)
        msg_len == FromBytes(Slice(d, 0, 2))
        checksum == Slice(d, msg_len + 2, msg_len + 4)
    IN  Len(checksum) = 2

parse_write_binary(data) ==
    LET resp == Strip(data)
    IN  IF resp = <<>> THEN ParseFail
        ELSE [ok |-> TRUE, success |-> resp[Len(resp)] = 48]

MSSTM_TAG == <<45, 77, 83, 83, 84, 77, 58>>                  \* b'-MSSTM:'
GSN_ECHO == <<65, 84, 43, 71, 83, 78>>                       \* b'AT+GSN'

IsHexDigit(b) == b \in (48..57) \cup (65..70) \cup (97..102)

HexDigitValue(b) == IF b <= 57 THEN b - 48 ELSE IF b <= 70 THEN b - 55 ELSE b - 87

RECURSIVE HexValue(_)
HexValue(s) ==
    IF s = <<>> THEN 0
    ELSE 16 * HexValue(SubSeq(s, 1, Len(s) - 1)) + HexDigitValue(s[Len(s)])

\* int(s, 16): one sign and one 0x prefix are accepted
ParseHex(s) ==
    LET t == Strip(s)
        neg == t # <<>> /\ Head(t) = 45
        u == IF t # <<>> /\ Head(t) \in {43, 45} THEN Tail(t) ELSE t
        v == IF Len(u) >= 2 /\ u[1] = 48 /\ u[2] \in {88, 120} THEN SliceFrom(u, 2) ELSE u
    IN  IF v # <<>> /\ \A k \in 1..Len(v) : IsHexDigit(v[k])
        THEN [ok |-> TRUE, val |-> IF neg THEN 0 - HexValue(v) ELSE HexValue(v)]
        ELSE [ok |-> FALSE, val |-> 0]

parse_system_time(data) ==
    LET t == TagValue(data, MSSTM_TAG)
        v == ParseHex(t.resp)
    IN  IF t.found /\ Decodes(t.resp) /\ Len(t.resp) >= 8 /\ v.ok
        THEN [ok |-> TRUE, sys_time |-> v.val]
        ELSE ParseFail

\* The first line that is neither empty nor an echo of the command, stripped;
\* b'' when there is none.
RECURSIVE FirstSerialLine(_)
FirstSerialLine(lines) ==
    IF lines = <<>> THEN <<>>
    ELSE LET line == Strip(Head(lines))
         IN  IF ~Contains(SERIAL_NUMBER, line) /\ ~Contains(GSN_ECHO, line) /\ line # <<>>
             THEN line
             ELSE FirstSerialLine(Tail(lines))

parse_serial_number(data) ==
    LET resp == FirstSerialLine(SplitLines(data))
    IN  IF resp # OK /\ data # <<>> /\ Decodes(resp)
        THEN [ok |-> TRUE, sn |-> resp]
        ELSE ParseFail

(***************************************************************************)
(* State.                                                                  *)
(***************************************************************************)
VARIABLES
    \* IridiumCommunicator (the host engine)
    previous_command,        \* _previous_command: the pending-command register
    read_buf,                \* _read_buf
    sequential_write_queue,  \* _sequential_write_queue
    write_queue,             \* _write_queue: MO payloads awaiting READY
    last_mt_queued,          \* _last_mt_queued
    last_mt_queued_retry,    \* _last_mt_queued_retry
    serial_number,           \* _serial_number
    options,                 \* options: option name -> value
    port_open,               \* serialport.isOpen()
    \* the listener thread's position in listen()/check_io()
    lpc,
    \* the caller thread's position in wait_for_command
    cpc,
    \* what the last step did: the Signal callbacks it fired, in order, the
    \* byte strings it handed to write_serial, in order, and its name with the
    \* register it found
    fired,
    wrote,
    step,
    \* history of the caller's wait_for_command scopes
    scope,
    \* for each entry of the sequential queue: who enqueued it ("caller",
    \* "ring"), or for a response handler "open" until its command_finished
    \* has fired and "closed" from then on
    seq_origin,
    \* the serial line: bytes on their way from the modem to the host and
    \* from the host to the modem
    wire,
    to_modem,
    \* the modem at the other end of the line
    emu,
    \* the connection: _connected, _active (the listening flag), listen_thread,
    \* and every thread that runs or ran listen(), with its position
    connected,
    active,
    listen_thread,
    threads,
    \* the lifecycle callbacks fired so far (connecting, connected,
    \* disconnecting, disconnected), in order
    lifelog,
    \* the thread that runs connect() and close(): its position and history
    conn,
    \* the event sink: for each callback that acquire_response substitutes,
    \* whose function is installed
    signal,
    \* the threads that run acquire_response
    acq

host_vars == <<previous_command, read_buf, sequential_write_queue, write_queue,
               last_mt_queued, last_mt_queued_retry, serial_number, options, port_open>>

vars == <<previous_command, read_buf, sequential_write_queue, write_queue,
          last_mt_queued, last_mt_queued_retry, serial_number, options, port_open,
          lpc, cpc, fired, wrote, step, scope, seq_origin, wire, to_modem, emu,
          connected, active, listen_thread, threads, lifelog, conn, signal, acq>>

\* the serial line and the modem
env_vars == <<wire, to_modem, emu>>

\* the connection, the listener threads, the sink and the blocking callers
life_vars == <<connected, active, listen_thread, threads, lifelog, conn, signal, acq>>

\* A fired callback.
Ev(sig, args) == [sig |-> sig, args |-> args]

\* An Error notification (the detail text is not kept).
ErrorNote(message) == Ev("notification", <<"Error", message>>)

\* signal.notification("Error", message, text) where the text is looked up
ErrorNoteText(message, text) == Ev("notification", <<"Error", message, text>>)

\* the MO_STATUS table
MO_STATUS ==
    [i \in (0..8) \cup (10..18) \cup (32..35) |->
        CASE i = 0 -> "MO message, if any, transferred successfully."
          [] i = 1 -> "MO message, if any, transferred successfully, but the MT message in the  queue was too big to be transferred."
          [] i = 2 -> "MO message, if any, transferred successfully, but the requested Location Update was not accepted."
          [] i \in {3, 4} -> "Reserved, but indicate MO session success if used."
          [] i \in 5..8 -> "Reserved, but indicate MO session failure if used."
          [] i = 10 -> "Gateway reported that the call did not complete in the allowed time."
          [] i = 11 -> "MO message queue at the Gateway is full."
          [] i = 12 -> "MO message has too many segments."
          [] i = 13 -> "Gateway reported that the session did not complete"
          [] i = 14 -> "Invalid segment size."
          [] i = 15 -> "Access is denied."
          [] i = 16 -> "9602 has been locked and may not make SBD calls (see +CULK command)."
          [] i = 17 -> "Gateway not responding (local session timeout)."
          [] i = 18 -> "Connection lost (RF drop)."
          [] i = 32 -> "No network service, unable to initiate call."
          [] i = 33 -> "Antenna fault, unable to initiate call."
          [] i = 34 -> "Radio is disabled, unable to initiate call (see *Rn command)."
          [] OTHER -> "9602 is busy, unable to initiate call (typically performing auto-registration)."]

\* MO_STATUS.get(mo_status, "Unknown failure!")
MoStatusText(mo_status) ==
    IF mo_status \in DOMAIN MO_STATUS THEN MO_STATUS[mo_status] ELSE "Unknown failure!"

\* collections.deque(maxlen=100)
QueueCapacity == 100

\* deque.append: a full deque drops its leftmost entry
DequeAppend(q, x) == IF Len(q) >= QueueCapacity THEN Tail(q) \o <<x>> ELSE Append(q, x)

RECURSIVE DequeExtend(_, _)
DequeExtend(q, xs) ==
    IF xs = <<>> THEN q ELSE DequeExtend(DequeAppend(q, Head(xs)), Tail(xs))

\* a membership test that never finds the command
InQueue_never(x, q) == FALSE

\* x in deque
InQueue(x, q) == \E k \in 1..Len(q) : q[k] = x

\* the names of the options, as strings of code points
ECHO == <<101, 99, 104, 111>>                                  \* 'echo'

RING_ALERTS == <<114, 105, 110, 103, 95, 97, 108, 101, 114, 116, 115>>   \* 'ring_alerts'

AUTO_READ == <<97, 117, 116, 111, 95, 114, 101, 97, 100>>               \* 'auto_read'

FLOW_CONTROL == <<102, 108, 111, 119, 95, 99, 111, 110, 116, 114, 111, 108>>  \* 'flow_control'

TELEPHONE == <<116, 101, 108, 101, 112, 104, 111, 110, 101>>             \* 'telephone'

\* get_option: self.options.get(str(option_name).lower(), False)
get_option(name) ==
    IF Lower(name) \in DOMAIN options THEN options[Lower(name)] ELSE FALSE

(***************************************************************************)
(* check_pending_command: the response handlers.                           *)
(***************************************************************************)
\* a command_finished that is never delivered
CommandFinished_lost(cmd, success, data) == <<>>

\* signal.command_finished(cmd, success, data)
CommandFinished(cmd, success, data) == <<Ev("command_finished", <<cmd, success, data>>)>>

\* What a handler asks for: the commands it enqueues, the callbacks it fires
\* before command_finished, command_success, and the MT retry state.
Same(success, ev) ==
    [enq |-> <<>>, ev |-> ev, success |-> success,
     last |-> last_mt_queued, retry |-> last_mt_queued_retry, sn |-> serial_number]

HandleSystemTime(data) ==
    LET r == parse_system_time(data)
    IN  IF r.ok THEN Same(TRUE, <<Ev("system_time_updated", <<r.sys_time>>)>>)
        ELSE Same(FALSE, <<ErrorNote("Could not parse the system time response")>>)

HandleSerialNumber(data) ==
    LET r == parse_serial_number(data)
    IN  IF r.ok
        THEN [Same(TRUE, <<Ev("serial_number_updated", <<r.sn>>)>>) EXCEPT !.sn = r.sn]
        ELSE Same(FALSE, <<ErrorNote("Could not parse the serial number response")>>)

HandleSignalQuality(data) ==
    LET r == parse_signal_quality(data)
    IN  IF r.ok THEN Same(TRUE, <<Ev("signal_quality_updated", <<r.sig>>)>>)
        ELSE Same(FALSE, <<ErrorNote("Could not parse the signal quality response")>>)

\* a CHECK_RING handler that does not look at the telephone option
HandleCheckRing_telephone_ignored(data) ==
    LET r == parse_check_ring(data)
    IN  IF r.ok
        THEN [Same(TRUE, <<Ev("check_ring_updated", <<r.tri, r.sri>>)>>) EXCEPT
                !.enq = IF r.sri > 0 /\ get_option(AUTO_READ) THEN <<SESSION>> ELSE <<>>]
        ELSE Same(FALSE, <<ErrorNote("Could not parse the check ring response")>>)

HandleCheckRing(data) ==
    LET r == parse_check_ring(data)
    IN  IF r.ok
        THEN [Same(TRUE, <<Ev("check_ring_updated", <<r.tri, r.sri>>)>>) EXCEPT
                !.enq = IF r.sri > 0 /\ ~get_option(TELEPHONE) /\ get_option(AUTO_READ)
                        THEN <<SESSION>> ELSE <<>>]
        ELSE Same(FALSE, <<ErrorNote("Could not parse the check ring response")>>)

\* an outgoing check that takes status 4 for a failure
MoSucceeded_below_four(mo_status) == 4 > mo_status /\ mo_status >= 0

\* 4 >= mo_status >= 0
MoSucceeded(mo_status) == 4 >= mo_status /\ mo_status >= 0

\* a retry check without an upper limit
RetryAllowed_unlimited(retry) == TRUE

\* self._last_mt_queued_retry < 2
RetryAllowed(retry) == retry < 2

\* The SESSION branch once the response is parsed into r.
SessionOutcome(r) ==
    IF ~r.ok THEN Same(FALSE, <<ErrorNote("Could not parse the session response")>>)
    ELSE
        LET mo_ok == MoSucceeded(r.mo_status)
            received == r.mt_status = 1 /\ r.mt_length > 0
            mt_error == ~received /\ r.mt_status > 1
            retrying == /\ mt_error
                        /\ r.mt_queued = 0
                        /\ last_mt_queued > 1
                        /\ RetryAllowed(last_mt_queued_retry)
            mt_queued == IF retrying THEN last_mt_queued ELSE r.mt_queued
            again == mt_queued > 0 /\ get_option(AUTO_READ)
        IN  [enq |-> (IF mo_ok THEN <<CLEAR_MO_BUFFER>> ELSE <<>>)
                     \o (IF received THEN <<READ_BINARY>> ELSE <<>>)
                     \o (IF again THEN <<SESSION>> ELSE <<>>),
             ev |-> (IF mo_ok
                     THEN <<Ev("message_transferred", <<r.mo_msn>>)>>
                     ELSE <<ErrorNoteText("Message Transfer Failed!", MoStatusText(r.mo_status)),
                            Ev("message_transfer_failed", <<r.mo_msn>>)>>)
                    \o (IF mt_error THEN <<ErrorNote("Message Receive Failed!")>> ELSE <<>>),
             success |-> TRUE,
             last |-> IF received THEN r.mt_queued ELSE last_mt_queued,
             retry |-> IF received THEN 0
                       ELSE IF retrying THEN last_mt_queued_retry + 1
                       ELSE last_mt_queued_retry,
             sn |-> serial_number]

\* a SESSION handler that takes any response for a success
HandleSession_silent(data) == Same(TRUE, <<>>)

HandleSession(data) == SessionOutcome(parse_session(data))

\* The READ_BINARY guard: further OK-terminated chunks are taken into data
\* until the frame is complete or the buffer holds no other OK.
RECURSIVE ReadBinaryGather(_, _)
ReadBinaryGather(data, buf) ==
    IF ~has_read_binary_data(data) /\ Contains(OK, buf)
    THEN LET idx == Find(OK, buf)
         IN  ReadBinaryGather(data \o OK \o Slice(buf, 0, idx), SliceFrom(buf, idx + 2))
    ELSE [data |-> data, buf |-> buf]

HandleReadBinary(data) ==
    LET r == parse_read_binary(data)
    IN  IF ~r.ok THEN Same(FALSE, <<ErrorNote("Could not parse the read binary data")>>)
        ELSE IF r.msg_len = Len(r.content) /\ r.calc_check = r.checksum
        THEN Same(TRUE, <<Ev("message_received", <<r.content>>)>>)
        ELSE Same(TRUE, <<Ev("message_receive_failed",
                             <<r.msg_len, r.content, r.checksum, r.calc_check>>)>>)

HandleWriteBinary(data) ==
    LET r == parse_write_binary(data)
    IN  IF r.ok THEN Same(r.success, <<>>)
        ELSE Same(FALSE, <<ErrorNote("Could not parse the write binary response")>>)

HandleClearBuffer(data) ==
    LET resp == Strip(Remove(Remove(Remove(data, CLEAR_MO_BUFFER), CLEAR_MO_BUFFER),
                             CLEAR_BOTH_BUFFERS))
    IN  Same(resp = <<48>>, <<>>)

\* The if/elif chain on _previous_command of the OK branch.
Dispatch(cmd, data) ==
    IF cmd = SYSTEM_TIME THEN HandleSystemTime(data)
    ELSE IF cmd = SERIAL_NUMBER THEN HandleSerialNumber(data)
    ELSE IF cmd = SIGNAL_QUALITY THEN HandleSignalQuality(data)
    ELSE IF cmd = CHECK_RING THEN HandleCheckRing(data)
    ELSE IF cmd = SESSION THEN HandleSession(data)
    ELSE IF cmd = READ_BINARY THEN HandleReadBinary(data)
    ELSE IF cmd = WRITE_BINARY THEN HandleWriteBinary(data)
    ELSE IF Contains(CLEAR_BUFFER, cmd) THEN HandleClearBuffer(data)
    ELSE Same(TRUE, <<>>)

\* some callback in evs is command_finished
HasFinished(evs) == \E k \in 1..Len(evs) : evs[k].sig = "command_finished"

\* The marks of the sequential queue after a step that enqueued n commands
\* from a response handler and fired evs: the new entries are "open" until
\* command_finished fires, "closed" from then on.
OpenMarks(marks, n, evs) ==
    LET ext == DequeExtend(marks, [k \in 1..n |-> "open"])
    IN  IF HasFinished(evs)
        THEN [k \in 1..Len(ext) |-> IF ext[k] = "open" THEN "closed" ELSE ext[k]]
        ELSE ext

\* A terminator was consumed: the caller's scope history records it.
TermConsumed(sc) == [sc EXCEPT !.term = TRUE]

(***************************************************************************)
(* The listener thread: listen() calls check_io(read_serial()).  check_io  *)
(* tests the register and then runs one of two bodies; a caller thread may *)
(* run between the test and the body.                                      *)
(***************************************************************************)
\* check_io up to its branch on pending_command()
check_io(message) ==
    /\ lpc = "read"
    /\ port_open
    /\ read_buf' = read_buf \o message
    /\ lpc' = IF previous_command # None /\ previous_command # <<>>
              THEN "pending" ELSE "unsolicited"
    /\ fired' = <<>>
    /\ wrote' = <<>>
    /\ step' = [op |-> "check_io", reg |-> previous_command]
    /\ UNCHANGED <<previous_command, sequential_write_queue, write_queue, last_mt_queued,
                   last_mt_queued_retry, serial_number, options, port_open, cpc, scope,
                   seq_origin>>

\* The buffer split at its first OK into the response data and the rest,
\* after the READ_BINARY guard.
OkSplit(cmd, buf) ==
    LET idx == Find(OK, buf)
    IN  IF cmd = READ_BINARY
        THEN ReadBinaryGather(Slice(buf, 0, idx), SliceFrom(buf, idx + 2))
        ELSE [data |-> Slice(buf, 0, idx), buf |-> SliceFrom(buf, idx + 2)]

\* The end of the OK branch up to line 1027: what the handler h asked for
\* takes effect and command_finished fires; the register then holds reg.
RespondThen(cmd, g, h, reg, op) ==
    /\ read_buf' = g.buf
    /\ sequential_write_queue' = DequeExtend(sequential_write_queue, h.enq)
    /\ fired' = h.ev \o CommandFinished(cmd, h.success, g.data)
    /\ seq_origin' = OpenMarks(seq_origin, Len(h.enq), fired')
    /\ last_mt_queued' = h.last
    /\ last_mt_queued_retry' = h.retry
    /\ serial_number' = h.sn
    /\ previous_command' = reg
    /\ wrote' = <<>>
    /\ step' = [op |-> op, reg |-> cmd, had |-> sequential_write_queue, data |-> g.data,
                buf |-> read_buf]
    /\ scope' = TermConsumed(scope)
    /\ UNCHANGED write_queue

\* The end of the OK branch: what the handler h asked for takes effect,
\* command_finished fires and the register is cleared.
Respond(cmd, g, h) == RespondThen(cmd, g, h, None, "ok")

\* The OK branch of check_pending_command for the split g of the buffer, up
\* to line 1027 when reg is the command and to its end when reg is None.
PendingOkThen(cmd, g, reg, op) ==
    IF cmd = READ_BINARY /\ ~has_read_binary_data(g.data)
    THEN \* not enough data: everything is put back
         /\ read_buf' = g.data \o OK \o g.buf
         /\ fired' = <<>>
         /\ wrote' = <<>>
         /\ step' = [op |-> "deferred", reg |-> cmd, buf |-> read_buf]
         /\ UNCHANGED <<previous_command, sequential_write_queue, write_queue,
                        last_mt_queued, last_mt_queued_retry, serial_number, scope,
                        seq_origin>>
    ELSE IF reg = None
    THEN Respond(cmd, g, Dispatch(cmd, g.data))
    ELSE RespondThen(cmd, g, Dispatch(cmd, g.data), reg, op)

\* The OK branch of check_pending_command for the split g of the buffer.
PendingOkWith(cmd, g) == PendingOkThen(cmd, g, None, "ok")

PendingOk == PendingOkWith(previous_command, OkSplit(previous_command, read_buf))

\* The READY branch of check_pending_command.
PendingReady ==
    LET cmd == previous_command
        idx == Find(READY, read_buf)
        data == Slice(read_buf, 0, idx)
        sends == StartsWith(cmd, WRITE_BINARY)
    IN  IF sends /\ write_queue = <<>>
        THEN \* popleft() raises IndexError: the listener thread ends
             /\ read_buf' = SliceFrom(read_buf, idx + Len(READY))
             /\ lpc' = "crashed"
             /\ fired' = <<>>
             /\ wrote' = <<>>
             /\ step' = [op |-> "crash", reg |-> cmd]
             /\ UNCHANGED <<previous_command, sequential_write_queue, write_queue,
                            last_mt_queued, last_mt_queued_retry, serial_number, scope,
                            seq_origin>>
        ELSE /\ read_buf' = SliceFrom(read_buf, idx + Len(READY))
             /\ write_queue' = IF sends THEN Tail(write_queue) ELSE write_queue
             /\ wrote' = IF sends
                         THEN <<Head(write_queue) \o Checksum(Head(write_queue))>>
                         ELSE <<>>
             /\ fired' = CommandFinished(cmd, TRUE, data)
             /\ seq_origin' = OpenMarks(seq_origin, 0, fired')
             /\ previous_command' = None
             /\ step' = [op |-> "ready", reg |-> cmd,
                         sent |-> IF sends THEN Head(write_queue) ELSE None]
             /\ scope' = TermConsumed(scope)
             /\ lpc' = "read"
             /\ UNCHANGED <<sequential_write_queue, last_mt_queued, last_mt_queued_retry,
                            serial_number>>

check_pending_command ==
    /\ lpc = "pending"
    /\ IF Contains(OK, read_buf)
       THEN PendingOk /\ lpc' = "read"
       ELSE IF Contains(READY, read_buf) /\ previous_command # READ_BINARY
       THEN PendingReady
       ELSE /\ lpc' = "read"
            /\ fired' = <<>>
            /\ wrote' = <<>>
            /\ step' = [op |-> "waiting", reg |-> previous_command, buf |-> read_buf]
            /\ UNCHANGED <<previous_command, read_buf, sequential_write_queue, write_queue,
                           last_mt_queued, last_mt_queued_retry, serial_number, scope,
                           seq_origin>>
    /\ UNCHANGED <<options, port_open, cpc>>

\* The last line of the buffer (splitlines()[-1]); the buffer itself when it
\* is empty (IndexError is passed over).
LastLine(buf) ==
    LET lines == SplitLines(buf)
    IN  IF lines = <<>> THEN buf ELSE lines[Len(lines)]

check_unsolicited ==
    /\ lpc = "unsolicited"
    /\ lpc' = "read"
    /\ IF Contains(RING, read_buf)
       THEN /\ read_buf' = SliceFrom(read_buf, Find(RING, read_buf) + Len(RING))
            /\ IF ~InQueue(SESSION, sequential_write_queue)
               THEN /\ sequential_write_queue' = DequeAppend(sequential_write_queue, SESSION)
                    /\ seq_origin' = DequeAppend(seq_origin, "ring")
               ELSE UNCHANGED <<sequential_write_queue, seq_origin>>
            /\ wrote' = <<>>
            /\ step' = [op |-> "ring", reg |-> previous_command,
                        had |-> sequential_write_queue]
            /\ UNCHANGED previous_command
       ELSE IF Len(sequential_write_queue) > 0
       THEN /\ previous_command' = Head(sequential_write_queue)
            /\ sequential_write_queue' = Tail(sequential_write_queue)
            /\ seq_origin' = Tail(seq_origin)
            /\ wrote' = <<Head(sequential_write_queue) \o CR>>
            /\ read_buf' = <<>>
            /\ step' = [op |-> "pop", reg |-> previous_command, by |-> Head(seq_origin),
                        ring |-> Contains(RING, read_buf)]
       ELSE /\ read_buf' = LastLine(read_buf)
            /\ wrote' = <<>>
            /\ step' = [op |-> "trim", reg |-> previous_command]
            /\ UNCHANGED <<previous_command, sequential_write_queue, seq_origin>>
    /\ fired' = <<>>
    /\ UNCHANGED <<write_queue, last_mt_queued, last_mt_queued_retry, serial_number,
                   options, port_open, cpc, scope>>

(***************************************************************************)
(* Caller threads: the request, queue and wait operations.                 *)
(***************************************************************************)
\* a setter that replaces a pending command without reporting it
SetterEvents_silent(command) == <<>>

\* The previous_command setter: a command still pending is reported finished
\* (without success) and replaced.
SetterEvents(command) ==
    IF previous_command # None /\ previous_command # <<>>
    THEN CommandFinished(previous_command, command = None, <<>>)
    ELSE <<>>

\* A request operation after its port test: self.previous_command = command;
\* self.write_serial(self.previous_command + b'\r')
SetAndWrite(command) ==
    /\ fired' = SetterEvents(command)
    /\ previous_command' = command
    /\ wrote' = <<command \o CR>>
    /\ seq_origin' = OpenMarks(seq_origin, 0, fired')

\* "Serial port not connected": the operation returns False
NotConnected ==
    /\ fired' = <<ErrorNote("Serial port not connected")>>
    /\ wrote' = <<>>
    /\ UNCHANGED <<previous_command, seq_origin>>

\* ping, set_*, request_*, check_ring, clear_*, initiate_session,
\* read_binary_message: one of the request operations, named by its command
request(command) ==
    /\ IF port_open THEN SetAndWrite(command) ELSE NotConnected
    /\ step' = [op |-> "request", reg |-> previous_command, cmd |-> command,
                scoped |-> cpc = "body"]
    /\ UNCHANGED <<read_buf, sequential_write_queue, write_queue, last_mt_queued,
                   last_mt_queued_retry, serial_number, options, port_open, lpc>>

\* The longest MO payload send_message accepts.
MaxMessage == 340

\* b'AT+SBDWB=' + str(len(message)).encode("utf-8")
WriteBinaryCommand(message) == WRITE_BINARY \o Dec(Len(message))

\* send_message after its two tests: the payload is appended and the command
\* written
SendAccepted(message) ==
    /\ IF port_open
       THEN /\ write_queue' = DequeAppend(write_queue, message)
            /\ SetAndWrite(WriteBinaryCommand(message))
       ELSE NotConnected /\ UNCHANGED write_queue
    /\ step' = [op |-> "send_message", reg |-> previous_command,
                cmd |-> WriteBinaryCommand(message), scoped |-> cpc = "body"]
    /\ UNCHANGED <<read_buf, sequential_write_queue, last_mt_queued,
                   last_mt_queued_retry, serial_number, options, port_open, lpc>>

\* send_message for a bytes message
send_message(message) == Len(message) <= MaxMessage /\ SendAccepted(message)

\* send_message for a str message: len() counts its characters, and the
\* message is encoded after the test
send_message_str(text) == Len(text) <= MaxMessage /\ SendAccepted(Utf8(text))

\* send_message and queue_send_message with len(message) > 340 on an open
\* port: IridiumError is raised
SendRaises(op, length) ==
    /\ port_open
    /\ length > MaxMessage
    /\ fired' = <<>>
    /\ wrote' = <<>>
    /\ step' = [op |-> "send_raised", reg |-> previous_command, by |-> op,
                length |-> length]
    /\ UNCHANGED <<previous_command, read_buf, sequential_write_queue, write_queue,
                   last_mt_queued, last_mt_queued_retry, serial_number, options,
                   port_open, lpc, seq_origin>>

\* queue_command and the queue_* operations that call it
queue_command(command) ==
    /\ sequential_write_queue' = DequeAppend(sequential_write_queue, command)
    /\ seq_origin' = DequeAppend(seq_origin, "caller")
    /\ fired' = <<>>
    /\ wrote' = <<>>
    /\ step' = [op |-> "queue_command", reg |-> previous_command, cmd |-> command]
    /\ UNCHANGED <<previous_command, read_buf, write_queue, last_mt_queued,
                   last_mt_queued_retry, serial_number, options, port_open, lpc>>

\* queue_send_message after its two tests
QueueSendAccepted(message) ==
    /\ IF port_open
       THEN /\ write_queue' = DequeAppend(write_queue, message)
            /\ sequential_write_queue' =
                   DequeAppend(sequential_write_queue, WriteBinaryCommand(message))
            /\ seq_origin' = DequeAppend(seq_origin, "caller")
            /\ fired' = <<>>
       ELSE /\ fired' = <<ErrorNote("Serial port not connected")>>
            /\ UNCHANGED <<write_queue, sequential_write_queue, seq_origin>>
    /\ wrote' = <<>>
    /\ step' = [op |-> "queue_send_message", reg |-> previous_command,
                cmd |-> WriteBinaryCommand(message)]
    /\ UNCHANGED <<previous_command, read_buf, last_mt_queued, last_mt_queued_retry,
                   serial_number, options, port_open, lpc>>

queue_send_message(message) == Len(message) <= MaxMessage /\ QueueSendAccepted(message)

queue_send_message_str(text) == Len(text) <= MaxMessage /\ QueueSendAccepted(Utf8(text))

\* wait_for_command, entry: "with self.wait_for_command(...):" is reached
EnterScope ==
    /\ cpc = "out"
    /\ cpc' = "entry"
    /\ scope' = [scope EXCEPT !.entry_to = FALSE]
    /\ step' = [op |-> "enter", reg |-> previous_command]
    /\ fired' = <<>>
    /\ wrote' = <<>>
    /\ UNCHANGED <<host_vars, lpc, seq_origin, env_vars, life_vars>>

\* an entry loop that never waits
EntryBusy_never == FALSE

\* the entry loop's condition: a command is pending or the queue is not empty
EntryBusy ==
    (previous_command # None /\ previous_command # <<>>) \/ Len(sequential_write_queue) > 0

\* the entry loop ends because its condition is false ...
EntryWaitDone ==
    /\ cpc = "entry"
    /\ ~EntryBusy
    /\ cpc' = "body"
    /\ step' = [op |-> "entry_done", reg |-> previous_command]
    /\ fired' = <<>>
    /\ wrote' = <<>>
    /\ UNCHANGED <<host_vars, lpc, scope, seq_origin, env_vars, life_vars>>

\* ... or because wait_for_previous has elapsed
EntryWaitTimeout ==
    /\ cpc = "entry"
    /\ EntryBusy
    /\ cpc' = "body"
    /\ scope' = [scope EXCEPT !.entry_to = TRUE]
    /\ step' = [op |-> "entry_timeout", reg |-> previous_command]
    /\ fired' = <<>>
    /\ wrote' = <<>>
    /\ UNCHANGED <<host_vars, lpc, seq_origin, env_vars, life_vars>>

\* the body of the scope: one request operation
ScopedRequest(command) ==
    /\ cpc = "body"
    /\ request(command)
    /\ cpc' = "exit"
    /\ scope' = [scope EXCEPT !.any = TRUE,
                              !.term = FALSE,
                              !.early = scope.any /\ ~scope.term,
                              !.both_to = scope.exit_to /\ scope.entry_to]
    /\ UNCHANGED <<env_vars, life_vars>>

\* the exit loop ends because the register is None ...
ExitWaitDone ==
    /\ cpc = "exit"
    /\ ~(previous_command # None /\ previous_command # <<>>)
    /\ cpc' = "out"
    /\ scope' = [scope EXCEPT !.exit_to = FALSE]
    /\ step' = [op |-> "exit_done", reg |-> previous_command]
    /\ fired' = <<>>
    /\ wrote' = <<>>
    /\ UNCHANGED <<host_vars, lpc, seq_origin, env_vars, life_vars>>

\* ... or because wait_time has elapsed
ExitWaitTimeout ==
    /\ cpc = "exit"
    /\ previous_command # None /\ previous_command # <<>>
    /\ cpc' = "out"
    /\ scope' = [scope EXCEPT !.exit_to = TRUE]
    /\ step' = [op |-> "exit_timeout", reg |-> previous_command]
    /\ fired' = <<>>
    /\ wrote' = <<>>
    /\ UNCHANGED <<host_vars, lpc, seq_origin, env_vars, life_vars>>

\* a request operation called outside any scope
DirectRequest(command) ==
    /\ cpc = "out"
    /\ request(command)
    /\ UNCHANGED <<cpc, scope, env_vars, life_vars>>

DirectSend(message) ==
    /\ cpc = "out"
    /\ send_message(message)
    /\ UNCHANGED <<cpc, scope, env_vars, life_vars>>

(***************************************************************************)
(* What the specifications share: the engine as constructed, and the       *)
(* lines a modem sends.                                                    *)
(***************************************************************************)
\* bounds of the model: bytes held in the read buffer once one more line is
\* read, entries of the sequential queue and of the binary queue when a
\* caller adds one
MaxBuf == 13

MaxQueue == 2

MaxPayloads == 2

LineOK == OK \o CRLF

LineRING == RING \o CRLF

LineREADY == READY \o CRLF

\* b'+CRIS: <tri>,<sri>\r\n'
LineCRIS(tri, sri) == CRIS_TAG \o <<32>> \o Dec(tri) \o <<44>> \o Dec(sri) \o CRLF

\* b'+SBDIX: <mo>, <momsn>, <mt>, <mtmsn>, <len>, <queued>\r\n'
LineSBDIX(t) ==
    SBDIX_TAG \o <<32>> \o Dec(t[1]) \o <<44, 32>> \o Dec(t[2]) \o <<44, 32>> \o Dec(t[3])
        \o <<44, 32>> \o Dec(t[4]) \o <<44, 32>> \o Dec(t[5]) \o <<44, 32>> \o Dec(t[6]) \o CRLF

DEFAULT_OPTIONS ==
    (ECHO :> TRUE) @@ (RING_ALERTS :> TRUE) @@ (AUTO_READ :> TRUE)
        @@ (FLOW_CONTROL :> FALSE) @@ (TELEPHONE :> FALSE)

NoScope ==
    [any |-> FALSE, term |-> FALSE, exit_to |-> FALSE, entry_to |-> FALSE,
     early |-> FALSE, both_to |-> FALSE]

\* no MT frame
NoFrame == [echo |-> FALSE, content |-> <<>>, check |-> <<>>]

\* The emulator as constructed (IridiumServer), listening on its port, with
\* two fields of history: the MT frame a modem sent last and the number of
\* message callbacks the host has fired since.
InitEmu ==
    [buf |-> <<>>, echo |-> TRUE, mo_status |-> 0, session_counter |-> 0, mt_msn |-> 0,
     mt_queue |-> <<>>, signal_quality |-> 5, pc |-> "listen", need |-> 0,
     frame |-> NoFrame, got |-> 0]

\* the threads that may run listen(), and the threads that may run
\* acquire_response
ListenerThreads == {1, 2}

Acquirers == {1, 2}

\* the callbacks acquire_response substitutes
Substituted ==
    {"system_time_updated", "serial_number_updated", "signal_quality_updated",
     "check_ring_updated", "command_finished"}

\* the sink as the application set it: every callback is the application's
\* own function, written 0; the collector of acquirer c is written c
AppSignal == [n \in Substituted |-> 0]

NoAcquire == [c \in Acquirers |-> [pc |-> "out", old |-> AppSignal, timed_out |-> FALSE]]

NoConnect == [pc |-> "idle", stage |-> 0, trail |-> <<>>, late |-> FALSE, after |-> "closed"]

\* The connection of an engine that is connected, with thread 1 in the loop
\* of listen().
InitLife ==
    /\ port_open = TRUE
    /\ connected = TRUE
    /\ active = TRUE
    /\ listen_thread = 1
    /\ threads = [t \in ListenerThreads |-> IF t = 1 THEN "loop" ELSE "none"]
    /\ lifelog = <<>>
    /\ conn = NoConnect
    /\ signal = AppSignal
    /\ acq = NoAcquire

\* The engine as constructed, at one end of a line whose other end is e.
InitEngineWith(e) ==
    /\ previous_command = None
    /\ read_buf = <<>>
    /\ sequential_write_queue = <<>>
    /\ write_queue = <<>>
    /\ last_mt_queued = 0
    /\ last_mt_queued_retry = 0
    /\ serial_number = <<>>
    /\ lpc = "read"
    /\ cpc = "out"
    /\ fired = <<>>
    /\ wrote = <<>>
    /\ step = [op |-> "init", reg |-> None]
    /\ scope = NoScope
    /\ seq_origin = <<>>
    /\ wire = <<>>
    /\ to_modem = <<>>
    /\ emu = e

\* The engine as constructed.
InitEngine == InitEngineWith(InitEmu)

\* The engine as constructed, its port opened and its listener started.
InitHost == InitLife /\ InitEngine

\* listen(): one read_serial(), which returns one of lines or nothing, and
\* the start of check_io
ListenerReads(lines, room) ==
    \E data \in lines \cup {<<>>} :
        /\ data # <<>> => /\ Len(read_buf) + Len(data) <= room
                          /\ Len(sequential_write_queue) <= MaxQueue
        /\ check_io(data)
        /\ UNCHANGED <<env_vars, life_vars>>

\* the listener's check_pending_command and check_unsolicited, with nothing
\* at the other end of the line
ListenerPending == check_pending_command /\ UNCHANGED <<env_vars, life_vars>>

ListenerUnsolicited == check_unsolicited /\ UNCHANGED <<env_vars, life_vars>>

CallerRequests(commands) == \E c \in commands : DirectRequest(c)

CallerScopedRequests(commands) == \E c \in commands : ScopedRequest(c)

CallerQueues(commands) ==
    \E c \in commands :
        /\ cpc = "out"
        /\ Len(sequential_write_queue) < MaxQueue
        /\ queue_command(c)
        /\ UNCHANGED <<cpc, scope, env_vars, life_vars>>

CallerSends(payloads) ==
    \E m \in payloads : Len(write_queue) < MaxPayloads /\ DirectSend(m)

CallerQueueSends(payloads) ==
    \E m \in payloads :
        /\ cpc = "out"
        /\ Len(sequential_write_queue) < MaxQueue
        /\ Len(write_queue) < MaxPayloads
        /\ queue_send_message(m)
        /\ UNCHANGED <<cpc, scope, env_vars, life_vars>>

(***************************************************************************)
(* Specification Spec: the listener thread and one caller thread that      *)
(* requests and queues commands at any time, with a modem that answers OK  *)
(* and rings at any time.                                                  *)
(***************************************************************************)
Init == InitHost /\ options = DEFAULT_OPTIONS

Next ==
    \/ ListenerReads({LineOK, LineRING}, MaxBuf)
    \/ ListenerPending
    \/ ListenerUnsolicited
    \/ CallerRequests({SIGNAL_QUALITY, PING})
    \/ CallerQueues({SYSTEM_TIME})

Spec == Init /\ [][Next]_vars

\* the number of entries of the queue q that are the command x
CountOf(x, q) == Cardinality({k \in 1..Len(q) : q[k] = x})

\* C1, as the specification states it: a request operation writes its
\* command only when the pending-command register is none.
C1_RequestOnlyWhenIdle == step.op = "request" => step.reg = None

\* C1, as the code has it: a request operation writes its command whatever
\* the register holds.  The step writes exactly the command and a carriage
\* return and leaves the command in the register; when a command was pending
\* it is reported by command_finished without success and replaced, and when
\* none was pending no callback fires.
C1_RequestReplacesPending ==
    step.op = "request" =>
        /\ wrote = <<step.cmd \o CR>>
        /\ previous_command = step.cmd
        /\ fired = IF step.reg = None THEN <<>>
                   ELSE <<Ev("command_finished", <<step.reg, FALSE, <<>>>>)>>

\* C1: a request was made while another command was pending
C1_Witness == step.op = "request" /\ step.reg # None /\ step.reg # step.cmd

\* C2: a command is popped from the sequential queue and written only in a
\* step in which the register is none and no SBDRING is in the read buffer,
\* whatever the interleaving of listener ticks and caller requests.
C2_PopOnlyWhenIdle == step.op = "pop" => (step.reg = None /\ ~step.ring)

\* C5: when an SBDRING is consumed and at most one SESSION is queued, the
\* queue holds exactly one SESSION afterwards, however many markers arrive
\* before that SESSION is popped.
C5_OneSessionPerRing ==
    (step.op = "ring" /\ CountOf(SESSION, step.had) <= 1) =>
        CountOf(SESSION, sequential_write_queue) = 1

\* C5: a further SBDRING was consumed while the SESSION of an earlier one
\* was still queued
C5_Witness ==
    /\ step.op = "ring"
    /\ CountOf(SESSION, step.had) = 1
    /\ CountOf(SESSION, sequential_write_queue) = 1

(***************************************************************************)
(* Specification SpecScoped: the listener thread and one caller thread     *)
(* that issues every command inside its own wait_for_command scope.        *)
(***************************************************************************)
NextScoped ==
    \/ ListenerReads({LineOK, LineRING}, MaxBuf)
    \/ ListenerPending
    \/ ListenerUnsolicited
    \/ EnterScope
    \/ EntryWaitDone
    \/ EntryWaitTimeout
    \/ CallerScopedRequests({SIGNAL_QUALITY})
    \/ ExitWaitDone
    \/ ExitWaitTimeout

SpecScoped == Init /\ [][NextScoped]_vars

C15_EntryWait ==
    /\ step.op = "entry_done" => (previous_command = None /\ sequential_write_queue = <<>>)
    /\ step.op \in {"entry_done", "entry_timeout"} => fired = <<>>

\* the exit wait ends quietly, and without a timeout only when no command is
\* pending
C15_ExitWait ==
    /\ step.op = "exit_done" => previous_command = None
    /\ step.op \in {"exit_done", "exit_timeout"} => fired = <<>>

\* a register that is not None when the scope is left means the command of
\* the body timed out: no terminator was consumed for it
C15_PendingMeansTimeout ==
    (step.op \in {"exit_done", "exit_timeout"} /\ previous_command # None) =>
        (step.op = "exit_timeout" /\ ~scope.term /\ previous_command = SIGNAL_QUALITY)

\* C15: wait_for_command never reports a timeout as an error; its entry wait
\* ends when the register is none and the sequential queue is empty or
\* wait_for_previous has elapsed, its exit wait when the register is none or
\* wait_time has elapsed; after an exit wait that did not time out the
\* register is none, and a register that is non-none after exit means the
\* command written in the body timed out.
C15_TimeoutSeenInRegister == C15_EntryWait /\ C15_ExitWait /\ C15_PendingMeansTimeout

(***************************************************************************)
(* Specification SpecSession: the listener thread and a caller that checks *)
(* the ring indicator and initiates sessions, with a modem that answers    *)
(* +CRIS and +SBDIX lines; auto_read is on or off.                         *)
(***************************************************************************)
MaxSessionBuf == 31

SessionTuples == {<<1, 42, 1, 7, 5, 2>>, <<0, 3, 2, 0, 0, 0>>}

InitSession ==
    /\ InitHost
    /\ options \in {DEFAULT_OPTIONS, [DEFAULT_OPTIONS EXCEPT ![AUTO_READ] = FALSE]}

NextSession ==
    \/ ListenerReads({LineOK, LineCRIS(0, 1)} \cup {LineSBDIX(t) : t \in SessionTuples},
                     MaxSessionBuf)
    \/ ListenerPending
    \/ ListenerUnsolicited
    \/ CallerRequests({CHECK_RING, SESSION})

SpecSession == InitSession /\ [][NextSession]_vars

\* C4: a command enqueued by a response handler is popped and written only
\* after command_finished has fired for the command whose response made the
\* handler enqueue it.
C4_FollowUpAfterFinished == step.op = "pop" => step.by # "open"

\* C4: a follow-up enqueued by the SESSION handler was popped and written
C4_Witness ==
    /\ step.op = "pop"
    /\ step.by = "closed"
    /\ previous_command = READ_BINARY
    /\ wrote = <<READ_BINARY \o CR>>

\* the response data holds the +SBDIX line of t at its first tag
SessionAnswer(data, t) == StartsAt(LineSBDIX(t), data, Find(SBDIX_TAG, data))

\* what the step enqueued: the queue without the entries it had before
Enqueued == SubSeq(sequential_write_queue, Len(step.had) + 1, Len(sequential_write_queue))

\* C9: a SESSION response with mt_status = 1 and mt_length > 0 records
\* last_mt_queued = mt_queued, resets the retry counter and enqueues
\* READ_BINARY, and a further SESSION when mt_queued > 0 and auto_read is on;
\* for (1, 42, 1, 7, 5, 2) and an empty queue the queue then holds
\* CLEAR_MO_BUFFER, READ_BINARY, SESSION and message_transferred(42) fired.
C9_SessionReceived ==
    \A t \in SessionTuples :
        (/\ step.op = "ok"
         /\ step.reg = SESSION
         /\ SessionAnswer(step.data, t)
         /\ t[3] = 1
         /\ t[5] > 0) =>
            /\ last_mt_queued = t[6]
            /\ last_mt_queued_retry = 0
            /\ CountOf(READ_BINARY, Enqueued) = 1
            /\ CountOf(SESSION, Enqueued) = (IF t[6] > 0 /\ options[AUTO_READ] THEN 1 ELSE 0)
            /\ (t = <<1, 42, 1, 7, 5, 2>> /\ options[AUTO_READ] /\ step.had = <<>>) =>
                   /\ sequential_write_queue = <<CLEAR_MO_BUFFER, READ_BINARY, SESSION>>
                   /\ \E k \in 1..Len(fired) :
                          /\ fired[k].sig = "message_transferred"
                          /\ fired[k].args = <<42>>

\* C9: the response (1, 42, 1, 7, 5, 2) was handled with auto_read on and an
\* empty queue
C9_Witness ==
    /\ step.op = "ok"
    /\ step.reg = SESSION
    /\ SessionAnswer(step.data, <<1, 42, 1, 7, 5, 2>>)
    /\ options[AUTO_READ]
    /\ step.had = <<>>
    /\ Len(sequential_write_queue) = 3

(***************************************************************************)
(* Specification SpecSend: the listener thread and a caller that sends and *)
(* queues MO messages, with a modem that answers READY or OK.              *)
(***************************************************************************)
Payloads == {<<97>>, <<98, 99>>}

NextSend ==
    \/ ListenerReads({LineREADY, LineOK}, MaxBuf)
    \/ ListenerPending
    \/ ListenerUnsolicited
    \/ CallerSends(Payloads)
    \/ CallerQueueSends(Payloads)

SpecSend == Init /\ [][NextSend]_vars

\* C10: whenever READY is consumed while a WRITE_BINARY=<n> command is
\* pending, the payload popped from the binary write queue is the one that
\* was enqueued with that command, of length n, and exactly the payload and
\* its 2-byte checksum are written.
C10_ReadySendsItsPayload ==
    (step.op = "ready" /\ StartsWith(step.reg, WRITE_BINARY)) =>
        /\ step.reg = WRITE_BINARY \o Dec(Len(step.sent))
        /\ wrote = <<step.sent \o Checksum(step.sent)>>

(***************************************************************************)
(* Specification SpecReadBinary: a caller that reads one MT message at a   *)
(* time with read_binary_message(), a modem that answers each AT+SBDRB     *)
(* with a frame, with or without the echo of the command, and a listener   *)
(* whose reads return the answer in chunks of any length.                  *)
(***************************************************************************)
\* an MT message with its checksum
GoodFrame(echo, content) == [echo |-> echo, content |-> content, check |-> Checksum(content)]

Frames ==
    {GoodFrame(TRUE, <<104, 105>>),
     GoodFrame(TRUE, OK),
     [echo |-> FALSE, content |-> <<104, 105>>, check |-> <<0, 0>>],
     GoodFrame(FALSE, READ_BINARY_RECEIVE)}

\* the frame as bytes: optional echo, 2-byte length, content, checksum
FrameBytes(f) ==
    (IF f.echo THEN READ_BINARY_RECEIVE ELSE <<>>)
        \o ToBytes2(Len(f.content)) \o f.content \o f.check

\* what follows the frame, up to the terminator
Trailer == CRLF \o CRLF \o OK

\* the whole answer to AT+SBDRB
Response(f) == FrameBytes(f) \o Trailer \o CRLF

\* read_binary_message(), called with no command pending
CallerReads ==
    /\ cpc = "out"
    /\ previous_command = None
    /\ to_modem = <<>>
    /\ wire = <<>>
    /\ request(READ_BINARY)
    /\ to_modem' = wrote'[1]
    /\ UNCHANGED <<cpc, scope, wire, emu, life_vars>>

\* the modem answers the command with an MT frame
ModemAnswers ==
    /\ to_modem # <<>>
    /\ \E f \in Frames :
        /\ wire' = wire \o Response(f)
        /\ emu' = [emu EXCEPT !.frame = f, !.got = 0]
    /\ to_modem' = <<>>
    /\ fired' = <<>>
    /\ wrote' = <<>>
    /\ step' = [op |-> "modem", reg |-> previous_command]
    /\ UNCHANGED <<host_vars, lpc, cpc, scope, seq_origin, life_vars>>

\* serialport.readline(): the bytes up to the first newline, or fewer when
\* the read times out
ReadLineMax(w) ==
    LET i == Find(LF, w)
    IN  IF i < 0 THEN Len(w) ELSE i + 1

ListenerReadsWire ==
    \E n \in 0..ReadLineMax(wire) :
        /\ check_io(Slice(wire, 0, n))
        /\ wire' = SliceFrom(wire, n)
        /\ UNCHANGED <<to_modem, emu, life_vars>>

\* the message callbacks among evs
MessageEvents(evs) ==
    {k \in 1..Len(evs) : evs[k].sig \in {"message_received", "message_receive_failed"}}

ReaderPending ==
    /\ check_pending_command
    /\ emu' = [emu EXCEPT !.got = Min(2, @ + Cardinality(MessageEvents(fired')))]
    /\ UNCHANGED <<wire, to_modem, life_vars>>

NextReadBinary ==
    \/ CallerReads
    \/ ModemAnswers
    \/ ListenerReadsWire
    \/ ReaderPending
    \/ ListenerUnsolicited

SpecReadBinary == Init /\ [][NextReadBinary]_vars

\* the listener ran check_pending_command on a buffer that held the whole
\* frame the modem sent, followed by OK
CompleteFrameStep ==
    /\ step.op \in {"ok", "deferred"}
    /\ step.reg = READ_BINARY
    /\ emu.frame # NoFrame
    /\ Contains(FrameBytes(emu.frame) \o Trailer, step.buf)

\* the one message callback a frame calls for
FrameEvent(f) ==
    IF f.check = Checksum(f.content)
    THEN Ev("message_received", <<f.content>>)
    ELSE Ev("message_receive_failed",
            <<Len(f.content), f.content, f.check, Checksum(f.content)>>)

\* C6: with READ_BINARY pending and a complete frame followed by OK in the
\* buffer, exactly one of message_received and message_receive_failed fires,
\* message_received iff length and checksum match; then command_finished
\* fires and the register is cleared.
C6_CompleteFrameHandled ==
    CompleteFrameStep =>
        /\ step.op = "ok"
        /\ previous_command = None
        /\ Len(fired) = 2
        /\ fired[1].sig = FrameEvent(emu.frame).sig
        /\ fired[1].args = FrameEvent(emu.frame).args
        /\ fired[2].sig = "command_finished"
        /\ fired[2].args[1] = READ_BINARY

\* while the buffer does not hold the whole frame, a listener step fires
\* nothing and leaves register and buffer as they were
C7_Deferral ==
    (/\ step.op \in {"ok", "deferred", "waiting"}
     /\ step.reg = READ_BINARY
     /\ emu.frame # NoFrame
     /\ ~Contains(FrameBytes(emu.frame), step.buf)) =>
        /\ fired = <<>>
        /\ previous_command = READ_BINARY
        /\ read_buf = step.buf

\* once the whole frame and its OK are present the content is delivered,
\* unmodified and no more than once
C7_Delivery ==
    /\ emu.got <= 1
    /\ \A k \in MessageEvents(fired) :
           fired[k].sig = "message_received" => fired[k].args = <<emu.frame.content>>
    /\ (CompleteFrameStep /\ emu.frame.check = Checksum(emu.frame.content)) =>
           \E k \in MessageEvents(fired) : fired[k].sig = "message_received"

\* C7: with READ_BINARY pending, a frame that arrives in several chunks or
\* holds the bytes 'OK' fires nothing and leaves register and buffer intact
\* until the whole frame is present; its content is then delivered exactly
\* once, unmodified.
C7_SplitFrameDeliveredOnce == C7_Deferral /\ C7_Delivery

(***************************************************************************)
(* The emulator (IridiumServer) at the other end of the serial line.  Its  *)
(* state is the record emu; an operation returns the new record and the    *)
(* bytes it writes to the line.  Commands that the hosts of the            *)
(* specifications below never send (system time, serial number, A/, En,    *)
(* In) are left out.                                                       *)
(***************************************************************************)
\* echo_command, then the lines of the answer and OK
Answer(e, cmd, lines) ==
    [e |-> e, out |-> (IF e.echo THEN cmd \o CRLF ELSE <<>>) \o lines \o OK \o CRLF]

\* a SESSION branch that counts the head among the messages still queued
ServerSession_head_counted(e, cmd) ==
    LET mt_status == IF Len(e.mt_queue) > 0 THEN 1 ELSE 0
        mt_len == IF Len(e.mt_queue) > 0 THEN Len(e.mt_queue[1]) ELSE 0
    IN  Answer([e EXCEPT !.session_counter = (@ + 1) % 65536,
                         !.mt_msn = (@ + 1) % 65536,
                         !.mo_status = 0],
               cmd,
               SBDIX_TAG \o <<32>> \o Dec(e.mo_status) \o <<44>> \o Dec(e.session_counter)
                   \o <<44>> \o Dec(mt_status) \o <<44>> \o Dec(e.mt_msn) \o <<44>>
                   \o Dec(mt_len) \o <<44>> \o Dec(Len(e.mt_queue)) \o CRLF \o CRLF)

\* the SESSION branch: the +SBDIX line and the counters
ServerSession(e, cmd) ==
    LET mt_status == IF Len(e.mt_queue) > 0 THEN 1 ELSE 0
        mt_len == IF Len(e.mt_queue) > 0 THEN Len(e.mt_queue[1]) ELSE 0
        queue_len == IF Len(e.mt_queue) > 0 THEN Len(e.mt_queue) - 1 ELSE 0
    IN  Answer([e EXCEPT !.session_counter = (@ + 1) % 65536,
                         !.mt_msn = (@ + 1) % 65536,
                         !.mo_status = 0],
               cmd,
               SBDIX_TAG \o <<32>> \o Dec(e.mo_status) \o <<44>> \o Dec(e.session_counter)
                   \o <<44>> \o Dec(mt_status) \o <<44>> \o Dec(e.mt_msn) \o <<44>>
                   \o Dec(mt_len) \o <<44>> \o Dec(queue_len) \o CRLF \o CRLF)

\* a READ_BINARY branch that takes the MT message enqueued last
ServerReadBinary_newest_first(e) ==
    IF Len(e.mt_queue) > 0
    THEN [e |-> [e EXCEPT !.mt_queue = SubSeq(@, 1, Len(@) - 1)],
          out |-> READ_BINARY_RECEIVE \o ToBytes2(Len(e.mt_queue[Len(e.mt_queue)]))
                      \o e.mt_queue[Len(e.mt_queue)]
                      \o Checksum(e.mt_queue[Len(e.mt_queue)]) \o CRLF \o CRLF \o OK \o CRLF]
    ELSE [e |-> e, out |-> OK \o CRLF]

\* the READ_BINARY branch: the frame of the first MT message, if any
ServerReadBinary(e) ==
    IF Len(e.mt_queue) > 0
    THEN [e |-> [e EXCEPT !.mt_queue = Tail(@)],
          out |-> READ_BINARY_RECEIVE \o ToBytes2(Len(e.mt_queue[1])) \o e.mt_queue[1]
                      \o Checksum(e.mt_queue[1]) \o CRLF \o CRLF \o OK \o CRLF]
    ELSE [e |-> e, out |-> OK \o CRLF]

\* the status lines that end the WRITE_BINARY branch
StatusLines(status) == CRLF \o Dec(status) \o CRLF \o CRLF \o OK \o CRLF

\* the WRITE_BINARY branch up to its read of the payload
ServerWriteBinary(e, cmd, length) ==
    IF length.ok
    THEN [e |-> [e EXCEPT !.pc = "wb", !.need = length.val + 2],
          out |-> (IF e.echo THEN cmd \o CRLF ELSE <<>>) \o READY \o CRLF]
    ELSE [e |-> [e EXCEPT !.mo_status = 14],
          out |-> (IF e.echo THEN cmd \o CRLF ELSE <<>>) \o StatusLines(14)]

check_incoming(e, cmd) ==
    IF cmd = PING \o CR THEN Answer(e, cmd, <<>>)
    ELSE IF cmd = ECHO_ON \o CR THEN Answer([e EXCEPT !.echo = TRUE], cmd, <<>>)
    ELSE IF cmd = ECHO_OFF \o CR THEN [e |-> [e EXCEPT !.echo = FALSE], out |-> OK \o CRLF]
    ELSE IF cmd \in {FLOW_CONTROL_ON \o CR, FLOW_CONTROL_OFF \o CR,
                     RING_ALERTS_ON \o CR, RING_ALERTS_OFF \o CR}
    THEN Answer(e, cmd, <<>>)
    ELSE IF cmd = SIGNAL_QUALITY \o CR
    THEN Answer(e, cmd, CSQ_TAG \o Dec(e.signal_quality) \o CRLF \o CRLF)
    ELSE IF cmd = CLEAR_MO_BUFFER \o CR THEN Answer(e, cmd, <<48>> \o CRLF \o CRLF)
    ELSE IF cmd = CHECK_RING \o CR
    THEN Answer(e, cmd, CRIS_TAG \o <<32, 48, 44>> \o Dec(Len(e.mt_queue)) \o CRLF \o CRLF)
    ELSE IF cmd = SESSION \o CR THEN ServerSession(e, cmd)
    ELSE IF cmd = READ_BINARY \o CR THEN ServerReadBinary(e)
    ELSE IF StartsWith(cmd, WRITE_BINARY)
    THEN ServerWriteBinary(e, cmd, ParseInt(Strip(Remove(cmd, WRITE_BINARY))))
    ELSE IF EndsWith(e.buf, CR) THEN Answer(e, cmd, <<>>)
    ELSE [e |-> e, out |-> <<>>]

\* the rest of the WRITE_BINARY branch, for the bytes msg that its one
\* read_serial() returned: fewer than length + 2 bytes end it at once
\* ("time.time() - start < 60" holds on the first pass of the loop)
ServerWriteBinaryRead(e, msg) ==
    IF Len(msg) < e.need
    THEN [e |-> [e EXCEPT !.mo_status = 10, !.pc = "listen"],
          out |-> OK \o CRLF \o StatusLines(10)]
    ELSE IF SliceFrom(msg, Len(msg) - 2) = Checksum(Slice(msg, 0, Len(msg) - 2))
    THEN [e |-> [e EXCEPT !.mo_status = 1, !.pc = "listen"], out |-> StatusLines(0)]
    ELSE [e |-> [e EXCEPT !.mo_status = 18, !.pc = "listen"], out |-> StatusLines(18)]

\* one command cut from the buffer at its first carriage return and handled
ServerCommand(e, i) == check_incoming([e EXCEPT !.buf = SliceFrom(e.buf, i + 1)],
                                      Slice(e.buf, 0, i + 1))

\* bytes appended to what a step has written so far
Written(r, out) == [e |-> r.e, out |-> out \o r.out]

\* the loop of the emulator's check_io: commands are cut from the buffer
\* and handled until none is left or one waits for its payload
RECURSIVE ServerLoop(_)
ServerLoop(r) ==
    IF r.e.pc = "wb" \/ ~Contains(CR, r.e.buf) THEN r
    ELSE ServerLoop(Written(ServerCommand(r.e, Find(CR, r.e.buf)), r.out))

\* the concatenation of the byte strings a step handed to write_serial
RECURSIVE Flatten(_)
Flatten(ws) == IF ws = <<>> THEN <<>> ELSE Head(ws) \o Flatten(Tail(ws))

\* an emulator step: its record and the line change, the host does not
EmulatorStep(r, op) ==
    /\ emu' = r.e
    /\ wire' = wire \o r.out
    /\ fired' = <<>>
    /\ wrote' = <<>>
    /\ step' = [op |-> op, reg |-> previous_command]
    /\ UNCHANGED <<host_vars, lpc, cpc, scope, seq_origin, life_vars>>

\* the emulator's listen(): one read_serial() and check_io
ServerListens ==
    /\ emu.pc = "listen"
    /\ to_modem # <<>>
    /\ to_modem' = SliceFrom(to_modem, ReadLineMax(to_modem))
    /\ EmulatorStep(ServerLoop([e |-> [emu EXCEPT !.buf = @ \o Slice(to_modem, 0,
                                                                   ReadLineMax(to_modem))],
                                out |-> <<>>]),
                    "server")

\* the read_serial() of the WRITE_BINARY branch returns what has arrived when
\* its timeout ends: nothing, a part of the payload, or all of it
ServerReadsPayload ==
    /\ emu.pc = "wb"
    /\ \E n \in 0..ReadLineMax(to_modem) :
        /\ to_modem' = SliceFrom(to_modem, n)
        /\ EmulatorStep(ServerLoop(ServerWriteBinaryRead(emu, Slice(to_modem, 0, n))),
                        "payload")

(***************************************************************************)
(* Specification SpecEmu: the host and the emulator on one serial line.    *)
(* The caller sends the MO message b"ping" and, once the line is quiet     *)
(* again, starts a session with initiate_session() or queue_session().     *)
(***************************************************************************)
Ping == <<112, 105, 110, 103>>

\* the host's read_serial(): a whole line, or nothing
WiredReads ==
    \E n \in {0, ReadLineMax(wire)} :
        /\ check_io(Slice(wire, 0, n))
        /\ wire' = SliceFrom(wire, n)
        /\ UNCHANGED <<to_modem, emu, life_vars>>

\* what the step hands to write_serial goes onto the line
Transmit == to_modem' = to_modem \o Flatten(wrote')

WiredPending == check_pending_command /\ Transmit /\ UNCHANGED <<wire, emu, life_vars>>

WiredUnsolicited == check_unsolicited /\ Transmit /\ UNCHANGED <<wire, emu, life_vars>>

WiredSend ==
    /\ cpc = "out"
    /\ send_message(Ping)
    /\ cpc' = "sent"
    /\ Transmit
    /\ UNCHANGED <<scope, wire, emu, life_vars>>

\* nothing is on its way and nothing is pending
LineQuiet ==
    /\ wire = <<>>
    /\ to_modem = <<>>
    /\ emu.pc = "listen"
    /\ previous_command = None
    /\ sequential_write_queue = <<>>
    /\ lpc = "read"

WiredInitiateSession ==
    /\ cpc = "sent"
    /\ LineQuiet
    /\ request(SESSION)
    /\ cpc' = "done"
    /\ Transmit
    /\ UNCHANGED <<scope, wire, emu, life_vars>>

WiredQueueSession ==
    /\ cpc = "sent"
    /\ LineQuiet
    /\ queue_command(SESSION)
    /\ cpc' = "done"
    /\ UNCHANGED <<scope, env_vars, life_vars>>

NextEmu ==
    \/ WiredReads
    \/ WiredPending
    \/ WiredUnsolicited
    \/ WiredSend
    \/ WiredInitiateSession
    \/ WiredQueueSession
    \/ ServerListens
    \/ ServerReadsPayload

SpecEmu == Init /\ [][NextEmu]_vars

\* on READY the host transmits b"ping" and the checksum bytes 0x01 0xBE
C8_PayloadBytes ==
    (step.op = "ready" /\ StartsWith(step.reg, WRITE_BINARY)) =>
        wrote = <<Ping \o <<1, 190>>>>

\* the emulator accepts the payload: mo_status = 1, status 0, then OK
C8_EmulatorAccepts ==
    step.op = "payload" =>
        /\ emu.mo_status = 1
        /\ EndsWith(wire, <<48>> \o CRLF \o CRLF \o OK \o CRLF)

\* the host's session returns mo_status 1 and message_transferred fires
C8_SessionReports ==
    (step.op = "ok" /\ step.reg = SESSION) =>
        /\ Contains(SBDIX_TAG \o <<32, 49, 44>>, step.data)
        /\ \E k \in 1..Len(fired) : fired[k].sig = "message_transferred"

\* C8: the write-binary round trip against the emulator: send_message(b"ping"),
\* READY, b"ping" and the checksum 0x01 0xBE, mo_status = 1 with status 0
\* and OK, and a following session that returns mo_status 1 and fires
\* message_transferred.
C8_WriteBinaryRoundTrip == C8_PayloadBytes /\ C8_EmulatorAccepts /\ C8_SessionReports

(***************************************************************************)
(* Specification SpecOptions: a caller sets and reads options under names  *)
(* in several spellings.  The engine is constructed with the default       *)
(* options, or with options={'X': True} (the constructor copies the keys   *)
(* of its argument as they are).                                           *)
(***************************************************************************)
OptionNames ==
    {ECHO, <<69>> \o Tail(ECHO),      \* 'echo', 'Echo'
     <<120>>, <<88>>,                 \* 'x', 'X'
     <<223>>, <<83, 83>>}             \* U+00DF, 'SS'

\* the spellings of a name: itself, name.lower() and name.upper()
Variants(name) == {name, Lower(name), Upper(name)}

InitOptions ==
    /\ InitHost
    /\ options \in {DEFAULT_OPTIONS, (<<88>> :> TRUE) @@ DEFAULT_OPTIONS}

\* the names set_option was called with so far
NamesSet == IF "ever" \in DOMAIN step THEN step.ever ELSE {}

\* set_option: self.options[str(option_name).lower()] = value
set_option(name, value) ==
    /\ options' = [k \in DOMAIN options \cup {Lower(name)} |->
                     IF k = Lower(name) THEN value ELSE options[k]]
    /\ step' = [op |-> "set_option", reg |-> previous_command, name |-> name,
                value |-> value, ever |-> NamesSet \cup {name}]
    /\ fired' = <<>>
    /\ wrote' = <<>>
    /\ UNCHANGED <<previous_command, read_buf, sequential_write_queue, write_queue,
                   last_mt_queued, last_mt_queued_retry, serial_number, port_open,
                   lpc, cpc, scope, seq_origin, env_vars, life_vars>>

CallerSetsOption == \E name \in OptionNames, value \in BOOLEAN : set_option(name, value)

\* a call of get_option, with what it returns
CallerGetsOption ==
    \E name \in OptionNames :
        /\ step' = [op |-> "get_option", reg |-> previous_command, name |-> name,
                    value |-> get_option(name), ever |-> NamesSet]
        /\ fired' = <<>>
        /\ wrote' = <<>>
        /\ UNCHANGED <<host_vars, lpc, cpc, scope, seq_origin, env_vars, life_vars>>

NextOptions ==
    \/ CallerSetsOption
    \/ CallerGetsOption

SpecOptions == InitOptions /\ [][NextOptions]_vars

\* every spelling of a name reads the same value
C19_VariantsAgree ==
    \A name \in OptionNames : \A v \in Variants(name) : get_option(v) = get_option(name)

\* a value stored under one spelling is read under every other
C19_StoredUnderEverySpelling ==
    step.op = "set_option" =>
        \A v \in Variants(step.name) : get_option(v) = step.value

\* a name that was never set, in any spelling, and is no default reads FALSE
C19_UnknownIsFalse ==
    \A name \in OptionNames :
        (/\ \A v \in Variants(name) : v \notin NamesSet /\ v \notin DOMAIN options
         /\ Lower(name) \notin DOMAIN DEFAULT_OPTIONS)
            => get_option(name) = FALSE

\* C19: get_option returns the same value for every upper/lower-case variant
\* of a name, a value stored with set_option under one variant is returned
\* under every other variant, and a name that was never set and is not a
\* default option returns false.
C19_OptionNamesIgnoreCase ==
    C19_VariantsAgree /\ C19_StoredUnderEverySpelling /\ C19_UnknownIsFalse

(***************************************************************************)
(* Specification SpecFraming: parse_read_binary applied to the frame of an *)
(* MT message, len_be2 || content || checksum(content), with and without   *)
(* the echo b'AT+SBDRB\r' in front.  The contents are built from a few     *)
(* pieces.                                                                 *)
(***************************************************************************)
MaxPieces == 3

ContentPieces == {<<104>>, <<0>>, <<255, 13>>, OK, READ_BINARY_RECEIVE}

ContentsOf(n) ==
    UNION {{Flatten(ps) : ps \in [1..k -> ContentPieces]} : k \in 0..n}

\* a frame is composed, as the emulator's READ_BINARY branch composes it
ComposesFrame ==
    /\ step.op # "frame"
    /\ \E content \in ContentsOf(MaxPieces), echo \in BOOLEAN :
        /\ emu' = [emu EXCEPT !.frame = GoodFrame(echo, content)]
        /\ wire' = FrameBytes(GoodFrame(echo, content))
    /\ step' = [op |-> "frame", reg |-> previous_command]
    /\ fired' = <<>>
    /\ wrote' = <<>>
    /\ UNCHANGED <<host_vars, lpc, cpc, scope, seq_origin, to_modem, life_vars>>

\* parse_read_binary is applied to it
ParsesFrame ==
    /\ step.op = "frame"
    /\ step' = [op |-> "parse_read_binary", reg |-> previous_command,
                result |-> parse_read_binary(wire)]
    /\ fired' = <<>>
    /\ wrote' = <<>>
    /\ UNCHANGED <<host_vars, lpc, cpc, scope, seq_origin, env_vars, life_vars>>

NextFraming ==
    \/ ComposesFrame
    \/ ParsesFrame

SpecFraming == Init /\ [][NextFraming]_vars

\* what the round trip is to return for the frame composed last
FrameFields ==
    [ok |-> TRUE, msg_len |-> Len(emu.frame.content), content |-> emu.frame.content,
     checksum |-> Checksum(emu.frame.content), calc_check |-> Checksum(emu.frame.content)]

\* C20: for any MT content, parse_read_binary applied to the frame
\* len_be2 || content || checksum(content), with or without the leading echo
\* AT+SBDRB\r, returns (len(content), content, checksum(content),
\* checksum(content)).
C20_FramingRoundTrip == step.op = "parse_read_binary" => step.result = FrameFields

\* the round trip holds for every frame that starts with the echo
C20_WithEcho ==
    (step.op = "parse_read_binary" /\ emu.frame.echo) => step.result = FrameFields

(***************************************************************************)
(* Specification SpecParse: a caller requests the commands whose response  *)
(* goes through the wire codec, and queues one more; the modem sends       *)
(* lines that parse for one of them and not for the others.                *)
(***************************************************************************)
MaxParseBuf == 12

ParsedCommands ==
    {SYSTEM_TIME, SERIAL_NUMBER, SIGNAL_QUALITY, CHECK_RING, SESSION, READ_BINARY}

\* b'+CSQ:3\r\n'
LineCSQ == CSQ_TAG \o <<51>> \o CRLF

\* the MT frame of b'hi', without echo, and a line break
LineFrame == FrameBytes(GoodFrame(FALSE, <<104, 105>>)) \o CRLF

NextParse ==
    \/ ListenerReads({LineOK, LineCSQ, LineFrame}, MaxParseBuf)
    \/ ListenerPending
    \/ ListenerUnsolicited
    \/ CallerRequests(ParsedCommands)
    \/ CallerQueues({SIGNAL_QUALITY})

SpecParse == Init /\ [][NextParse]_vars

\* the codec raises IridiumError on data, for the response of cmd
CodecFails(cmd, data) ==
    IF cmd = SYSTEM_TIME THEN ~parse_system_time(data).ok
    ELSE IF cmd = SERIAL_NUMBER THEN ~parse_serial_number(data).ok
    ELSE IF cmd = SIGNAL_QUALITY THEN ~parse_signal_quality(data).ok
    ELSE IF cmd = CHECK_RING THEN ~parse_check_ring(data).ok
    ELSE IF cmd = SESSION THEN ~parse_session(data).ok
    ELSE IF cmd = READ_BINARY THEN ~parse_read_binary(data).ok
    ELSE FALSE

\* the step handled the response of a pending command of ParsedCommands and
\* the codec failed on it
ParseFailedStep ==
    /\ step.op = "ok"
    /\ step.reg \in ParsedCommands
    /\ CodecFails(step.reg, step.data)

C17_ReadBinaryNeverFails == ~(ParseFailedStep /\ step.reg = READ_BINARY)

(***************************************************************************)
(* The listener threads: listen(), start_thread() and stop_listening().    *)
(* A thread that runs listen() is at "entered" before the test of          *)
(* is_listening(), at "checked" between the test and _active.set(), at     *)
(* "loop" in the while loop and at "fed" once it has called check_io;      *)
(* "raised" and "ended" are the two ways out.                              *)
(***************************************************************************)
NoThread == 0

InLoop(t) == threads[t] \in {"loop", "fed"}

\* a step of the lifecycle that fires evs and writes nothing
LifeStep(op, evs) ==
    /\ step' = [op |-> op, reg |-> previous_command]
    /\ fired' = evs
    /\ wrote' = <<>>

\* the application starts a thread of its own on listen()
AppStartsListener(t) ==
    /\ threads[t] = "none"
    /\ threads' = [threads EXCEPT ![t] = "entered"]
    /\ LifeStep("thread", <<>>)
    /\ UNCHANGED <<host_vars, lpc, cpc, scope, seq_origin, env_vars, connected, active,
                   listen_thread, lifelog, conn, signal, acq>>

\* start_thread(): a thread is created unless the flag is set or a
\* listen_thread exists
start_thread(t) ==
    /\ threads[t] = "none"
    /\ IF ~active /\ listen_thread = NoThread
       THEN /\ listen_thread' = t
            /\ threads' = [threads EXCEPT ![t] = "entered"]
            /\ LifeStep("start_thread", <<Ev("notification", <<"Warning", "No threads are listening">>)>>)
       ELSE /\ LifeStep("start_thread", <<>>)
            /\ UNCHANGED <<listen_thread, threads>>

\* listen(): "if self.is_listening(): raise IridiumError(...)"
ListenTests(t) ==
    /\ threads[t] = "entered"
    /\ threads' = [threads EXCEPT ![t] = IF active THEN "raised" ELSE "checked"]
    /\ LifeStep("listen_test", <<>>)
    /\ UNCHANGED <<host_vars, lpc, cpc, scope, seq_origin, env_vars, connected, active,
                   listen_thread, lifelog, conn, signal, acq>>

\* listen(): self._active.set()
ListenSets(t) ==
    /\ threads[t] = "checked"
    /\ active' = TRUE
    /\ threads' = [threads EXCEPT ![t] = "loop"]
    /\ LifeStep("listen_set", <<>>)
    /\ UNCHANGED <<host_vars, lpc, cpc, scope, seq_origin, env_vars, connected,
                   listen_thread, lifelog, conn, signal, acq>>

\* listen(): "while self.is_listening():" is false, the thread leaves
ListenLeaves(t) ==
    /\ InLoop(t)
    /\ ~active
    /\ lpc = "read"
    /\ threads' = [threads EXCEPT ![t] = "ended"]
    /\ LifeStep("listen_end", <<>>)
    /\ UNCHANGED <<host_vars, lpc, cpc, scope, seq_origin, env_vars, connected, active,
                   listen_thread, lifelog, conn, signal, acq>>

\* listen(): one pass of the loop of thread t, up to the branch of check_io
ListenFeeds(t, lines, room) ==
    /\ InLoop(t)
    /\ active
    /\ \E data \in lines \cup {<<>>} :
        /\ data # <<>> => Len(read_buf) + Len(data) <= room
        /\ check_io(data)
    /\ threads' = [threads EXCEPT ![t] = "fed"]
    /\ UNCHANGED <<env_vars, connected, active, listen_thread, lifelog, conn, signal, acq>>

\* stop_listening(): self._active.clear()
StopClears ==
    /\ conn.pc = "stop"
    /\ active' = FALSE
    /\ conn' = [conn EXCEPT !.pc = "join"]
    /\ LifeStep("stop_clear", <<>>)
    /\ UNCHANGED <<host_vars, lpc, cpc, scope, seq_origin, env_vars, connected,
                   listen_thread, threads, lifelog, signal, acq>>

\* stop_listening(): self.listen_thread.join() returns (at once when there is
\* no listen_thread), then self.listen_thread = None
StopJoins(next) ==
    /\ conn.pc = "join"
    /\ listen_thread # NoThread => threads[listen_thread] \in {"raised", "ended"}
    /\ listen_thread' = NoThread
    /\ conn' = [conn EXCEPT !.pc = next]
    /\ LifeStep("stop_join", <<>>)
    /\ UNCHANGED <<host_vars, lpc, cpc, scope, seq_origin, env_vars, connected, active,
                   threads, lifelog, signal, acq>>

(***************************************************************************)
(* Specification SpecListeners: an engine with its port open and no        *)
(* listener.  The application starts threads on listen(), calls            *)
(* start_thread() as connect(create_thread=True) does, and stops the       *)
(* listener; the modem sends OK and SBDRING lines.                         *)
(***************************************************************************)
\* an engine that has no listener and is not connected
InitUnconnected(open) ==
    /\ InitEngine
    /\ options = DEFAULT_OPTIONS
    /\ port_open = open
    /\ connected = FALSE
    /\ active = FALSE
    /\ listen_thread = NoThread
    /\ threads = [t \in ListenerThreads |-> "none"]
    /\ lifelog = <<>>
    /\ conn = NoConnect
    /\ signal = AppSignal
    /\ acq = NoAcquire

InitListeners == InitUnconnected(TRUE)

\* connect(), lines 742-753: connecting is fired and the port is opened
ConnectOpens ==
    /\ conn.pc = "idle"
    /\ port_open' = TRUE
    /\ lifelog' = Append(lifelog, "connecting")
    /\ conn' = [conn EXCEPT !.pc = "opened"]
    /\ LifeStep("connect", <<Ev("connecting", <<>>)>>)
    /\ UNCHANGED <<previous_command, read_buf, sequential_write_queue, write_queue,
                   last_mt_queued, last_mt_queued_retry, serial_number, options,
                   lpc, cpc, scope, seq_origin, env_vars, connected, active,
                   listen_thread, threads, signal, acq>>

\* connect(), lines 755-757: "if create_thread and not self.is_listening():
\* self.start_thread()"
ConnectStartsThread ==
    /\ conn.pc = "opened"
    /\ \E t \in ListenerThreads :
        /\ threads[t] = "none"
        /\ IF active
           THEN LifeStep("start_thread", <<>>) /\ UNCHANGED <<listen_thread, threads>>
           ELSE start_thread(t)
    /\ conn' = [conn EXCEPT !.pc = "started"]
    /\ UNCHANGED <<host_vars, lpc, cpc, scope, seq_origin, env_vars, connected, active,
                   lifelog, signal, acq>>

\* the application calls stop_listening()
AppStops ==
    /\ conn.pc \in {"idle", "opened", "started"}
    /\ conn' = [conn EXCEPT !.pc = "stop"]
    /\ LifeStep("stop", <<>>)
    /\ UNCHANGED <<host_vars, lpc, cpc, scope, seq_origin, env_vars, connected, active,
                   listen_thread, threads, lifelog, signal, acq>>

NextListeners ==
    \/ \E t \in ListenerThreads : AppStartsListener(t)
    \/ ConnectOpens
    \/ ConnectStartsThread
    \/ \E t \in ListenerThreads : ListenTests(t)
    \/ \E t \in ListenerThreads : ListenSets(t)
    \/ \E t \in ListenerThreads : ListenFeeds(t, {LineOK, LineRING}, MaxBuf)
    \/ ListenerPending
    \/ ListenerUnsolicited
    \/ \E t \in ListenerThreads : ListenLeaves(t)
    \/ AppStops
    \/ StopClears
    \/ StopJoins("stopped")

SpecListeners == InitListeners /\ [][NextListeners]_vars

\* C14: at most one listener loop runs per engine in every reachable state: a
\* second listen(), started while a listener runs, concurrently with
\* another, or by connect(create_thread=True) just after the application
\* started its own listener thread, fails and never feeds check_io.
C14_OneListener == Cardinality({t \in ListenerThreads : InLoop(t)}) <= 1

(***************************************************************************)
(* connect() and close(), run by one application thread whose position is  *)
(* conn.pc.  conn.stage counts the commands of connect that were answered, *)
(* conn.trail holds the commands connect has written, conn.late whether a  *)
(* wait of connect ended with its command pending.                         *)
(***************************************************************************)
\* the commands of configure_connection_options and the two pings
StageCommand(stage) ==
    IF stage = 0 THEN (IF get_option(ECHO) THEN ECHO_ON ELSE ECHO_OFF)
    ELSE IF stage = 1 THEN (IF get_option(FLOW_CONTROL) THEN FLOW_CONTROL_ON
                            ELSE FLOW_CONTROL_OFF)
    ELSE IF stage = 2 THEN (IF get_option(RING_ALERTS) THEN RING_ALERTS_ON
                            ELSE RING_ALERTS_OFF)
    ELSE PING

Stages == 5

\* what connect writes when every command is answered
ConnectCommands == [k \in 1..Stages |-> StageCommand(k - 1)]

\* "with self.wait_for_command(self.connect_timeout, wait_for_previous=0):"
\* and its body: the entry loop does not wait, the command is requested
ConnectWrites ==
    /\ conn.pc \in {"started", "body"}
    /\ request(StageCommand(conn.stage))
    /\ to_modem' = to_modem \o Flatten(wrote')
    /\ conn' = [conn EXCEPT !.pc = "wait",
                            !.trail = IF wrote' = <<>> THEN @
                                      ELSE Append(@, StageCommand(conn.stage))]
    /\ UNCHANGED <<cpc, scope, wire, emu, connected, active, listen_thread, threads,
                   lifelog, signal, acq>>

\* the exit loop of the scope ends because the register is None ...
ConnectWaitDone ==
    /\ conn.pc = "wait"
    /\ previous_command = None
    /\ conn' = [conn EXCEPT !.pc = "check"]
    /\ LifeStep("connect_wait", <<>>)
    /\ UNCHANGED <<host_vars, lpc, cpc, scope, seq_origin, env_vars, connected, active,
                   listen_thread, threads, lifelog, signal, acq>>

\* ... or because connect_timeout has elapsed
ConnectWaitTimeout ==
    /\ conn.pc = "wait"
    /\ previous_command # None
    /\ conn' = [conn EXCEPT !.pc = "check", !.late = TRUE]
    /\ LifeStep("connect_timeout", <<>>)
    /\ UNCHANGED <<host_vars, lpc, cpc, scope, seq_origin, env_vars, connected, active,
                   listen_thread, threads, lifelog, signal, acq>>

\* "if self.pending_command() is None" after a scope: the next command, the
\* end of connect, or its failure; after a ping that failure closes first
ConnectChecks ==
    /\ conn.pc = "check"
    /\ IF previous_command = None
       THEN /\ conn' = [conn EXCEPT !.stage = @ + 1,
                                    !.pc = IF conn.stage + 1 = Stages THEN "finish"
                                           ELSE "body"]
            /\ lifelog' = lifelog
       ELSE IF conn.stage < 3
       THEN /\ conn' = [conn EXCEPT !.pc = "failed"]
            /\ lifelog' = lifelog
       ELSE /\ conn' = [conn EXCEPT !.pc = "stop", !.after = "failed"]
            /\ lifelog' = Append(lifelog, "disconnecting")
    /\ LifeStep("connect_check",
                IF previous_command # None /\ conn.stage >= 3
                THEN <<Ev("disconnecting", <<>>)>> ELSE <<>>)
    /\ UNCHANGED <<host_vars, lpc, cpc, scope, seq_origin, env_vars, connected, active,
                   listen_thread, threads, signal, acq>>

\* self._connected = True; self.signal.connected()
ConnectFinishes ==
    /\ conn.pc = "finish"
    /\ connected' = TRUE
    /\ lifelog' = Append(lifelog, "connected")
    /\ conn' = [conn EXCEPT !.pc = "connected"]
    /\ LifeStep("connected", <<Ev("connected", <<>>)>>)
    /\ UNCHANGED <<host_vars, lpc, cpc, scope, seq_origin, env_vars, active,
                   listen_thread, threads, signal, acq>>

\* the application calls close(): disconnecting is fired
CloseBegins ==
    /\ conn.pc \in {"connected", "failed"}
    /\ lifelog' = Append(lifelog, "disconnecting")
    /\ conn' = [conn EXCEPT !.pc = "stop", !.after = "closed"]
    /\ LifeStep("close", <<Ev("disconnecting", <<>>)>>)
    /\ UNCHANGED <<host_vars, lpc, cpc, scope, seq_origin, env_vars, connected, active,
                   listen_thread, threads, signal, acq>>

\* a close() that leaves the port open
ClosePort_port_left_open ==
    /\ conn.pc = "closeport"
    /\ connected' = FALSE
    /\ lifelog' = Append(lifelog, "disconnected")
    /\ conn' = [conn EXCEPT !.pc = conn.after]
    /\ LifeStep("closed", <<Ev("disconnected", <<>>)>>)
    /\ UNCHANGED <<host_vars, lpc, cpc, scope, seq_origin, env_vars, active,
                   listen_thread, threads, signal, acq>>

\* a close() that leaves _connected set
ClosePort_flag_left_set ==
    /\ conn.pc = "closeport"
    /\ port_open' = FALSE
    /\ lifelog' = Append(lifelog, "disconnected")
    /\ conn' = [conn EXCEPT !.pc = conn.after]
    /\ LifeStep("closed", <<Ev("disconnected", <<>>)>>)
    /\ UNCHANGED <<previous_command, read_buf, sequential_write_queue, write_queue,
                   last_mt_queued, last_mt_queued_retry, serial_number, options,
                   lpc, cpc, scope, seq_origin, env_vars, connected, active,
                   listen_thread, threads, signal, acq>>

\* close(), after stop_listening: the port is closed, _connected is False and
\* disconnected is fired; close returns
ClosePort ==
    /\ conn.pc = "closeport"
    /\ port_open' = FALSE
    /\ connected' = FALSE
    /\ lifelog' = Append(lifelog, "disconnected")
    /\ conn' = [conn EXCEPT !.pc = conn.after]
    /\ LifeStep("closed", <<Ev("disconnected", <<>>)>>)
    /\ UNCHANGED <<previous_command, read_buf, sequential_write_queue, write_queue,
                   last_mt_queued, last_mt_queued_retry, serial_number, options,
                   lpc, cpc, scope, seq_origin, env_vars, active, listen_thread, threads,
                   signal, acq>>

\* listen(): one pass of the loop of thread t on the serial line, up to the
\* branch of check_io; readline returns a line or, on its timeout, nothing
ListenFeedsWire(t) ==
    /\ InLoop(t)
    /\ active
    /\ \E n \in {0, ReadLineMax(wire)} :
        /\ check_io(Slice(wire, 0, n))
        /\ wire' = SliceFrom(wire, n)
    /\ threads' = [threads EXCEPT ![t] = "fed"]
    /\ UNCHANGED <<to_modem, emu, connected, active, listen_thread, lifelog, conn,
                   signal, acq>>

(***************************************************************************)
(* Specification SpecConnect: an engine on a closed port with the emulator *)
(* at the other end.  The application calls connect() and, when connect    *)
(* has returned or raised, close().                                        *)
(***************************************************************************)
InitConnect == InitUnconnected(FALSE)

NextConnect ==
    \/ ConnectOpens
    \/ ConnectStartsThread
    \/ \E t \in ListenerThreads : ListenTests(t)
    \/ \E t \in ListenerThreads : ListenSets(t)
    \/ \E t \in ListenerThreads : ListenFeedsWire(t)
    \/ WiredPending
    \/ WiredUnsolicited
    \/ \E t \in ListenerThreads : ListenLeaves(t)
    \/ ConnectWrites
    \/ ConnectWaitDone
    \/ ConnectWaitTimeout
    \/ ConnectChecks
    \/ ConnectFinishes
    \/ CloseBegins
    \/ StopClears
    \/ StopJoins("closeport")
    \/ ClosePort
    \/ ServerListens

SpecConnect == InitConnect /\ [][NextConnect]_vars

\* C13: against the emulator, connect followed by close fires connected and
\* then disconnected, and when close has returned the engine's read buffer
\* is empty.
C13_ConnectCloseLeavesNothing ==
    (conn.pc = "closed" /\ conn.stage = Stages) =>
        /\ lifelog = <<"connecting", "connected", "disconnecting", "disconnected">>
        /\ read_buf = <<>>

\* connect followed by close fires the four lifecycle callbacks in order
C13_Callbacks ==
    (conn.pc = "closed" /\ conn.stage = Stages) =>
        lifelog = <<"connecting", "connected", "disconnecting", "disconnected">>

(***************************************************************************)
(* Transport failures.  serialport.readline() or serialport.write() raises *)
(* (always on a closed port); read_serial and write_serial fire an Error   *)
(* notification and call close() in the thread that hit the failure.  The  *)
(* notifications are kept in lifelog as "read_error" and "write_error".    *)
(***************************************************************************)
\* readline() raises in the loop of thread t: the notification, and close()
\* is entered
ListenReadFails(t) ==
    /\ InLoop(t)
    /\ active
    /\ port_open
    /\ lpc = "read"
    /\ threads' = [threads EXCEPT ![t] = "closing_read"]
    /\ lifelog' = Append(lifelog, "read_error")
    /\ LifeStep("read_error",
                <<ErrorNote("Error when reading from the serial port! The connection will be closed!")>>)
    /\ UNCHANGED <<host_vars, lpc, cpc, scope, seq_origin, env_vars, connected, active,
                   listen_thread, conn, signal, acq>>

\* a pass of check_io whose write raises: nothing reaches the line, the
\* notification, and close() is entered by the listener
PassWriteFails(body) ==
    /\ body
    /\ wrote' # <<>>
    /\ \E t \in ListenerThreads :
        /\ InLoop(t)
        /\ threads' = [threads EXCEPT ![t] = "closing_write"]
    /\ lifelog' = Append(lifelog, "write_error")
    /\ UNCHANGED <<env_vars, connected, active, listen_thread, conn, signal, acq>>

\* a pass of check_io on an open port whose writes succeed
PassOnOpenPort(body) ==
    /\ port_open
    /\ body
    /\ to_modem' = to_modem \o Flatten(wrote')
    /\ UNCHANGED <<wire, emu, life_vars>>

\* a pass of check_io on a closed port that writes nothing
PassOnClosedPort(body) ==
    /\ ~port_open
    /\ body
    /\ wrote' = <<>>
    /\ UNCHANGED <<env_vars, life_vars>>

\* close() run by listener thread t from read_serial or write_serial:
\* joining itself raises, which close passes over; after a failed read,
\* read_serial returns b'' and check_io(b'') is entered
ListenCloses(t) ==
    /\ threads[t] \in {"closing_read", "closing_write"}
    /\ listen_thread \in {NoThread, t}
    /\ lpc = "read"
    /\ active' = FALSE
    /\ port_open' = FALSE
    /\ connected' = FALSE
    /\ lifelog' = lifelog \o <<"disconnecting", "disconnected">>
    /\ threads' = [threads EXCEPT ![t] = "fed"]
    /\ lpc' = IF threads[t] = "closing_write" THEN "read"
              ELSE IF previous_command # None /\ previous_command # <<>> THEN "pending"
              ELSE "unsolicited"
    /\ LifeStep("listener_close", <<Ev("disconnecting", <<>>), Ev("disconnected", <<>>)>>)
    /\ UNCHANGED <<previous_command, read_buf, sequential_write_queue, write_queue,
                   last_mt_queued, last_mt_queued_retry, serial_number, options,
                   cpc, scope, seq_origin, env_vars, listen_thread, conn, signal, acq>>

\* a command of connect whose write raises: the register is set, nothing
\* reaches the line, the notification, and close() is entered by the caller;
\* when close has returned the scope of the command is left
ConnectWriteFails ==
    /\ conn.pc \in {"started", "body"}
    /\ port_open
    /\ request(StageCommand(conn.stage))
    /\ lifelog' = lifelog \o <<"write_error", "disconnecting">>
    /\ conn' = [conn EXCEPT !.pc = "stop", !.after = "wait"]
    /\ UNCHANGED <<cpc, scope, env_vars, connected, active, listen_thread, threads,
                   signal, acq>>

\* another thread of the application, once connect has returned or raised:
\* it requests and queues commands
ConnectOver == conn.pc \in {"connected", "failed", "stop", "join", "closeport", "closed"}

OtherRequests(commands) ==
    /\ ConnectOver
    /\ conn.after # "wait"
    /\ conn.pc = "closed" \/ LineQuiet
    /\ \E c \in commands : cpc = "out" /\ request(c)
    /\ to_modem' = to_modem \o Flatten(wrote')
    /\ UNCHANGED <<cpc, scope, wire, emu, life_vars>>

OtherQueues(commands) ==
    /\ ConnectOver
    /\ conn.after # "wait"
    /\ write_queue = <<>>
    /\ sequential_write_queue = <<>>
    /\ conn.pc = "closed" \/ LineQuiet
    /\ CallerQueues(commands)

\* a request of the application whose write raises: the register is set,
\* nothing reaches the line, the notification, and close() is entered by the
\* caller
OtherWriteFails(commands) ==
    /\ conn.pc = "connected"
    /\ port_open
    /\ previous_command = None
    /\ \E c \in commands : cpc = "out" /\ request(c)
    /\ wrote' # <<>>
    /\ lifelog' = lifelog \o <<"write_error", "disconnecting">>
    /\ conn' = [conn EXCEPT !.pc = "stop", !.after = "closed"]
    /\ UNCHANGED <<cpc, scope, env_vars, connected, active, listen_thread, threads,
                   signal, acq>>

(***************************************************************************)
(* Specification SpecConnectFails: SpecConnect with a port that may fail   *)
(* under a read or a write while connect() runs.                           *)
(***************************************************************************)
NextConnectFails ==
    \/ ConnectOpens
    \/ ConnectStartsThread
    \/ \E t \in ListenerThreads : ListenTests(t)
    \/ \E t \in ListenerThreads : ListenSets(t)
    \/ \E t \in ListenerThreads : port_open /\ ListenFeedsWire(t)
    \/ PassOnOpenPort(check_pending_command)
    \/ PassOnOpenPort(check_unsolicited)
    \/ PassOnClosedPort(check_pending_command)
    \/ PassOnClosedPort(check_unsolicited)
    \/ \E t \in ListenerThreads : ListenReadFails(t)
    \/ \E t \in ListenerThreads : ListenCloses(t)
    \/ \E t \in ListenerThreads : ListenLeaves(t)
    \/ ConnectWrites
    \/ ConnectWriteFails
    \/ ConnectWaitDone
    \/ ConnectWaitTimeout
    \/ ConnectChecks
    \/ ConnectFinishes
    \/ CloseBegins
    \/ StopClears
    \/ StopJoins("closeport")
    \/ ClosePort
    \/ ServerListens

SpecConnectFails == InitConnect /\ [][NextConnectFails]_vars

(***************************************************************************)
(* Specification SpecTransport: a connected engine with its listener and   *)
(* the emulator at the other end.  The application requests and queues     *)
(* commands and calls close(); the port may fail under a read or a write.  *)
(***************************************************************************)
InitTransport ==
    /\ InitEngine
    /\ options = DEFAULT_OPTIONS
    /\ port_open = TRUE
    /\ connected = TRUE
    /\ active = TRUE
    /\ listen_thread \in {1, NoThread}
    /\ threads = [t \in ListenerThreads |-> IF t = 1 THEN "loop" ELSE "none"]
    /\ lifelog = <<>>
    /\ conn = [NoConnect EXCEPT !.pc = "connected", !.stage = Stages]
    /\ signal = AppSignal
    /\ acq = NoAcquire

NextTransport ==
    \/ \E t \in ListenerThreads : port_open /\ ListenFeedsWire(t)
    \/ PassOnOpenPort(check_pending_command)
    \/ PassOnOpenPort(check_unsolicited)
    \/ PassOnClosedPort(check_pending_command)
    \/ PassOnClosedPort(check_unsolicited)
    \/ PassWriteFails(check_unsolicited)
    \/ \E t \in ListenerThreads : ListenReadFails(t)
    \/ \E t \in ListenerThreads : ListenCloses(t)
    \/ \E t \in ListenerThreads : ListenLeaves(t)
    \/ OtherRequests({SIGNAL_QUALITY})
    \/ OtherWriteFails({SIGNAL_QUALITY})
    \/ OtherQueues({SYSTEM_TIME})
    \/ CloseBegins
    \/ StopClears
    \/ StopJoins("closeport")
    \/ ClosePort
    \/ ServerListens

SpecTransport == InitTransport /\ [][NextTransport]_vars

\* is_connected()
is_connected == port_open /\ connected

\* is_listening()
is_listening == active

\* the step puts no byte on the line to the modem (the modem only takes
\* bytes off it)
NothingWritten == Len(to_modem') <= Len(to_modem)

\* lifelog holds the signal or notification name
Logged(name) == \E k \in 1..Len(lifelog) : lifelog[k] = name

TransportFailed == Logged("read_error") \/ Logged("write_error")

\* no thread is inside the close() that a failure or the application began
NoCloseRunning ==
    /\ \A t \in ListenerThreads : threads[t] \notin {"closing_read", "closing_write"}
    /\ conn.pc \in {"connected", "closed"}

C18_WitnessWrite ==
    /\ Logged("write_error")
    /\ conn.pc = "closed"
    /\ previous_command # None

\* connected was fired only after the five commands were written in order
C12_WrittenInOrder == Logged("connected") => conn.trail = ConnectCommands

\* a command of connect is written only when the one before it is no longer
\* pending
C12_AfterPrevious ==
    (step.op = "request" /\ conn.pc = "wait" /\ wrote # <<>>) => step.reg = None

\* a wait of connect that ended with its command pending is followed by no
\* connected
C12_PendingAborts == conn.late => ~Logged("connected")

\* C12: connect sets the connected flag and fires connected only after the
\* echo, flow-control and ring-alerts commands and two PINGs were written in
\* that order, each after the one before it was answered; when one of them is
\* still pending at the end of its wait, connect aborts and connected is not
\* fired.
C12_ConnectSequence ==
    /\ connected => Logged("connected")
    /\ C12_WrittenInOrder
    /\ C12_AfterPrevious
    /\ C12_PendingAborts

(***************************************************************************)
(* acquire_response.  signal maps each substituted callback to the one     *)
(* installed in the sink: 0 for the application's own, c for the collector *)
(* that the call of acquirer c created.  acq[c].pc is the position of      *)
(* thread c in acquire_response, acq[c].old what it saved on entry.        *)
(***************************************************************************)
Updaters == Substituted \ {"command_finished"}

\* "old_system_time = self.signal.system_time_updated" and the four lines
\* after it
AcquireSaves(c) ==
    /\ acq[c].pc = "out"
    /\ acq' = [acq EXCEPT ![c] = [pc |-> "saved", old |-> signal, timed_out |-> FALSE]]
    /\ step' = [op |-> "acquire_save", reg |-> previous_command, by |-> c]
    /\ fired' = <<>>
    /\ wrote' = <<>>
    /\ UNCHANGED <<host_vars, lpc, cpc, scope, seq_origin, env_vars, connected, active,
                   listen_thread, threads, lifelog, conn, signal>>

\* "self.signal.system_time_updated = lambda s: values.append(s)" and the
\* three lines after it
AcquireInstalls(c) ==
    /\ acq[c].pc = "saved"
    /\ signal' = [n \in Substituted |-> IF n \in Updaters THEN c ELSE signal[n]]
    /\ acq' = [acq EXCEPT ![c].pc = "entry"]
    /\ step' = [op |-> "acquire_install", reg |-> previous_command, by |-> c]
    /\ fired' = <<>>
    /\ wrote' = <<>>
    /\ UNCHANGED <<host_vars, lpc, cpc, scope, seq_origin, env_vars, connected, active,
                   listen_thread, threads, lifelog, conn>>

\* the entry loop of wait_for_command ends, the engine being idle or
\* wait_for_previous having elapsed; the body sets the register, installs the
\* command_finished collector and writes the command
AcquireWrites(c, command) ==
    /\ acq[c].pc = "entry"
    /\ SetAndWrite(command)
    /\ signal' = [signal EXCEPT !["command_finished"] = c]
    /\ acq' = [acq EXCEPT ![c].pc = "wait"]
    /\ step' = [op |-> "acquire_write", reg |-> previous_command, by |-> c,
                idle |-> previous_command = None /\ sequential_write_queue = <<>>]
    /\ UNCHANGED <<read_buf, sequential_write_queue, write_queue, last_mt_queued,
                   last_mt_queued_retry, serial_number, options, port_open, lpc, cpc,
                   scope, env_vars, connected, active, listen_thread, threads, lifelog,
                   conn>>

\* the exit loop of wait_for_command ends, the register being None or
\* wait_time having elapsed
AcquireWaits(c) ==
    /\ acq[c].pc = "wait"
    /\ acq' = [acq EXCEPT ![c].pc = "restore",
                          ![c].timed_out = previous_command # None]
    /\ step' = [op |-> "acquire_wait", reg |-> previous_command, by |-> c]
    /\ fired' = <<>>
    /\ wrote' = <<>>
    /\ UNCHANGED <<host_vars, lpc, cpc, scope, seq_origin, env_vars, connected, active,
                   listen_thread, threads, lifelog, conn, signal>>

\* "self.signal.system_time_updated = old_system_time" and the four lines
\* after it; the call returns or raises
AcquireRestores(c) ==
    /\ acq[c].pc = "restore"
    /\ signal' = acq[c].old
    /\ acq' = [acq EXCEPT ![c].pc = "out"]
    /\ step' = [op |-> "acquire_restore", reg |-> previous_command, by |-> c]
    /\ fired' = <<>>
    /\ wrote' = <<>>
    /\ UNCHANGED <<host_vars, lpc, cpc, scope, seq_origin, env_vars, connected, active,
                   listen_thread, threads, lifelog, conn>>

(***************************************************************************)
(* Specification SpecAcquire: a connected engine with its listener; the    *)
(* threads of Acquirers call acquire_response(AT+CSQ) and the modem sends  *)
(* the answer lines.                                                       *)
(***************************************************************************)
\* The longest read buffer explored under SpecAcquire.
MaxAcquireBuf == 4

InitAcquire == InitHost /\ options = DEFAULT_OPTIONS

NextAcquire ==
    \/ \E c \in Acquirers : AcquireSaves(c)
    \/ \E c \in Acquirers : AcquireInstalls(c)
    \/ \E c \in Acquirers : AcquireWrites(c, SIGNAL_QUALITY)
    \/ \E c \in Acquirers : AcquireWaits(c)
    \/ \E c \in Acquirers : AcquireRestores(c)
    \/ ListenerReads({LineOK}, MaxAcquireBuf)
    \/ ListenerPending
    \/ ListenerUnsolicited

SpecAcquire == InitAcquire /\ [][NextAcquire]_vars

\* a call that ran with no other call inside acquire_response leaves the
\* sink as it found it
C16_RestoresWhatWasSaved ==
    (step.op = "acquire_restore") => signal = acq[step.by].old

\* C16: when no call of acquire_response is running, the five substituted
\* callbacks of the sink (system_time_updated, serial_number_updated,
\* signal_quality_updated, check_ring_updated, command_finished) are the
\* ones the application installed, also after two callers ran
\* acquire_response concurrently.
C16_CallbacksRestored ==
    (\A c \in Acquirers : acq[c].pc = "out") => signal = AppSignal

(***************************************************************************)
(* Specification SpecChecksum: the three places that compute the checksum  *)
(* of a content (the READY branch of the host, parse_read_binary, the      *)
(* WRITE_BINARY branch of the emulator) are applied to contents of up to   *)
(* MaxMessage bytes, whose byte sums lie on both sides of 2^16.            *)
(***************************************************************************)
ChecksumLengths == {0, 1, 2, 256, 257, 258, MaxMessage - 1, MaxMessage}

ChecksumBytes == {0, 1, 2, 128, 254, 255}

\* n bytes b
Run(b, n) == [k \in 1..n |-> b]

ChecksumContents == {Run(b, n) : b \in ChecksumBytes, n \in ChecksumLengths}

\* a content is chosen
ChoosesContent ==
    /\ step.op \notin {"content"}
    /\ \E content \in ChecksumContents :
        step' = [op |-> "content", reg |-> previous_command, content |-> content]
    /\ fired' = <<>>
    /\ wrote' = <<>>
    /\ UNCHANGED <<host_vars, lpc, cpc, scope, seq_origin, env_vars, life_vars>>

\* the checksum that the READY branch appends to the payload
ReadyChecksums ==
    /\ step.op = "content"
    /\ step' = [op |-> "ready_checksum", reg |-> previous_command,
                content |-> step.content, result |-> Checksum(step.content)]
    /\ fired' = <<>>
    /\ wrote' = <<step.content \o Checksum(step.content)>>
    /\ UNCHANGED <<host_vars, lpc, cpc, scope, seq_origin, env_vars, life_vars>>

\* calc_check of parse_read_binary for the frame of the content
ParserChecksums ==
    /\ step.op = "content"
    /\ step' = [op |-> "calc_check", reg |-> previous_command, content |-> step.content,
                result |-> parse_read_binary(ToBytes2(Len(step.content)) \o step.content
                                             \o <<0, 0>>).calc_check]
    /\ fired' = <<>>
    /\ wrote' = <<>>
    /\ UNCHANGED <<host_vars, lpc, cpc, scope, seq_origin, env_vars, life_vars>>

\* the emulator validates the payload followed by the two bytes check
EmulatorValidates ==
    /\ step.op = "content"
    /\ \E check \in {<<0, 0>>, <<(ByteSum(step.content) % 65536) \div 256,
                                ByteSum(step.content) % 256>>} :
        step' = [op |-> "emulator_check", reg |-> previous_command,
                 content |-> step.content, check |-> check,
                 result |-> ServerWriteBinaryRead(
                                [InitEmu EXCEPT !.need = Len(step.content) + 2],
                                step.content \o check).e.mo_status]
    /\ fired' = <<>>
    /\ wrote' = <<>>
    /\ UNCHANGED <<host_vars, lpc, cpc, scope, seq_origin, env_vars, life_vars>>

NextChecksum ==
    \/ ChoosesContent
    \/ ReadyChecksums
    \/ ParserChecksums
    \/ EmulatorValidates

SpecChecksum == Init /\ [][NextChecksum]_vars

\* the unsigned sum of the bytes modulo 2^16, big-endian
Low16BE(content) == <<(ByteSum(content) % 65536) \div 256, ByteSum(content) % 256>>

\* C21: for every content of at most 340 bytes, the two checksum bytes that
\* the host computes on READY and in parse_read_binary, and the two bytes
\* that the emulator accepts, are the unsigned sum of the content bytes
\* modulo 2^16, big-endian.
C21_ChecksumIsLow16 ==
    /\ step.op \in {"ready_checksum", "calc_check"} => step.result = Low16BE(step.content)
    /\ step.op = "emulator_check" =>
        (step.result = 1 <=> step.check = Low16BE(step.content))

\* the READY branch has computed the checksum of 340 bytes 0xFF, whose sum
\* 86700 exceeds 2^16
C21_Witness ==
    /\ step.op = "ready_checksum"
    /\ Len(step.content) = MaxMessage
    /\ ByteSum(step.content) >= 65536
    /\ step.result = <<82, 172>>

(***************************************************************************)
(* Specification SpecLimits: a caller hands send_message and               *)
(* queue_send_message bytes and str messages whose lengths lie on both     *)
(* sides of MaxMessage; the modem answers READY and OK.                    *)
(***************************************************************************)
\* b'a' * n
BytesMessages == {Run(97, n) : n \in {MaxMessage, MaxMessage + 1}}

\* n characters U+00E9, two bytes each in UTF-8
StrMessages == {Run(233, n) : n \in {MaxMessage, MaxMessage + 1}}

CallerSendsAny ==
    /\ cpc = "out"
    /\ Len(write_queue) < MaxPayloads
    /\ \/ \E m \in BytesMessages : send_message(m)
       \/ \E t \in StrMessages : send_message_str(t)
    /\ UNCHANGED <<cpc, scope, env_vars, life_vars>>

CallerQueueSendsAny ==
    /\ cpc = "out"
    /\ Len(write_queue) < MaxPayloads
    /\ Len(sequential_write_queue) < MaxQueue
    /\ \/ \E m \in BytesMessages : queue_send_message(m)
       \/ \E t \in StrMessages : queue_send_message_str(t)
    /\ UNCHANGED <<cpc, scope, env_vars, life_vars>>

CallerSendRaises ==
    /\ cpc = "out"
    /\ \E m \in BytesMessages \cup StrMessages, op \in {"send_message", "queue_send_message"} :
        SendRaises(op, Len(m))
    /\ UNCHANGED <<cpc, scope, env_vars, life_vars>>

NextLimits ==
    \/ ListenerReads({LineREADY, LineOK}, MaxBuf)
    \/ ListenerPending
    \/ ListenerUnsolicited
    \/ CallerSendsAny
    \/ CallerQueueSendsAny
    \/ CallerSendRaises

SpecLimits == Init /\ [][NextLimits]_vars

\* a call that raised left the queues and the register as they were and
\* wrote nothing
C22_RaiseChangesNothing ==
    [][step'.op = "send_raised" =>
        /\ UNCHANGED <<write_queue, sequential_write_queue, previous_command>>
        /\ wrote' = <<>>]_vars

\* a bytes payload in the binary write queue is at most 340 bytes long
C22_BytesWithinLimit ==
    \A k \in 1..Len(write_queue) :
        (\A i \in 1..Len(write_queue[k]) : write_queue[k][i] = 97) =>
            Len(write_queue[k]) <= MaxMessage

\* C22: send_message and queue_send_message accept no payload longer than
\* 340 bytes: every payload held in the binary write queue is at most 340
\* bytes long, and no AT+SBDWB command for more than 340 bytes is written or
\* queued.
C22_PayloadLimit ==
    /\ \A k \in 1..Len(write_queue) : Len(write_queue[k]) <= MaxMessage
    /\ \A k \in 1..Len(sequential_write_queue) :
        StartsWith(sequential_write_queue[k], WRITE_BINARY) =>
            ParseInt(SliceFrom(sequential_write_queue[k], Len(WRITE_BINARY))).val <= MaxMessage

\* the pending command of the step is still on the line to the modem, which
\* has not read it
NotYetReceived == EndsWith(to_modem, step.reg \o CR)

\* C23: a terminator (OK or READY) that is consumed while a command is
\* pending was sent by the modem in answer to that command: none is
\* consumed while the command is still on its way to the modem, so that no
\* OK left over from an earlier exchange ends a later command.
C23_TerminatorAnswersPending ==
    step.op \in {"ok", "ready"} => ~NotYetReceived

(***************************************************************************)
(* Specification SpecOutcomes: the listener thread and a caller that       *)
(* initiates sessions, with a modem that answers +SBDIX lines of every     *)
(* kind of outcome; auto_read is on or off.                                *)
(***************************************************************************)
\* received with two more queued; MT failed; MO and MT failed; MO failed
\* with a status the table does not hold
OutcomeTuples ==
    {<<0, 42, 1, 7, 5, 2>>, <<4, 42, 2, 0, 0, 0>>, <<32, 43, 2, 0, 0, 0>>,
     <<-1, 42, 0, 0, 0, 0>>}

\* room for the longest answer and its OK
MaxOutcomeBuf == Len(LineSBDIX(<<32, 43, 2, 0, 0, 0>>)) + Len(LineOK)

InitOutcomes ==
    /\ InitHost
    /\ options \in {DEFAULT_OPTIONS, [DEFAULT_OPTIONS EXCEPT ![AUTO_READ] = FALSE]}

NextOutcomes ==
    \/ ListenerReads({LineOK} \cup {LineSBDIX(t) : t \in OutcomeTuples}, MaxOutcomeBuf)
    \/ ListenerPending
    \/ ListenerUnsolicited
    \/ CallerRequests({SESSION})

SpecOutcomes == InitOutcomes /\ [][NextOutcomes]_vars

\* the callbacks of the step that carry the signal sig
FiredOf(sig) == {k \in 1..Len(fired) : fired[k].sig = sig}

\* C24: handling a SESSION response with 0 <= mo_status <= 4 enqueues
\* CLEAR_MO_BUFFER and fires message_transferred(mo_msn) and no
\* message_transfer_failed; with any other mo_status it fires
\* message_transfer_failed(mo_msn) and an Error notification with the
\* MO_STATUS text, and enqueues no CLEAR_MO_BUFFER.
C24_MoOutcome ==
    \A t \in OutcomeTuples :
        (step.op = "ok" /\ step.reg = SESSION /\ SessionAnswer(step.data, t)) =>
            IF 0 <= t[1] /\ t[1] <= 4
            THEN /\ CountOf(CLEAR_MO_BUFFER, Enqueued) = 1
                 /\ \E k \in FiredOf("message_transferred") : fired[k].args = <<t[2]>>
                 /\ FiredOf("message_transfer_failed") = {}
            ELSE /\ CountOf(CLEAR_MO_BUFFER, Enqueued) = 0
                 /\ \E k \in FiredOf("message_transfer_failed") : fired[k].args = <<t[2]>>
                 /\ FiredOf("message_transferred") = {}
                 /\ \E k \in FiredOf("notification") :
                        /\ fired[k].args[1] = "Error"
                        /\ fired[k].args[3] =
                              (IF t[1] = 32 THEN "No network service, unable to initiate call."
                               ELSE "Unknown failure!")

C24_Witness ==
    /\ step.op = "ok"
    /\ step.reg = SESSION
    /\ SessionAnswer(step.data, <<4, 42, 2, 0, 0, 0>>)
    /\ CountOf(CLEAR_MO_BUFFER, Enqueued) = 1

\* the session answer handled by the next step is t
HandlesNext(t) ==
    /\ step'.op = "ok"
    /\ step'.reg = SESSION
    /\ SessionAnswer(step'.data, t)

\* the new entries of the sequential queue after the next step
EnqueuedNext ==
    SubSeq(sequential_write_queue', Len(step'.had) + 1, Len(sequential_write_queue'))

\* the retry counter stays within 0..2
C25_CounterBounded == last_mt_queued_retry \in 0..2

\* a failed session with no queue count retries while the counter is below 2
C25_Retries ==
    [][\A t \in OutcomeTuples :
        (/\ HandlesNext(t)
         /\ t[3] > 1
         /\ t[6] = 0
         /\ last_mt_queued > 1
         /\ last_mt_queued_retry < 2) =>
            /\ last_mt_queued_retry' = last_mt_queued_retry + 1
            /\ last_mt_queued' = last_mt_queued
            /\ options[AUTO_READ] => CountOf(SESSION, EnqueuedNext) = 1]_vars

\* at 2 the counter stays and no SESSION is enqueued for a failed session
C25_StopsAtTwo ==
    [][\A t \in OutcomeTuples :
        (HandlesNext(t) /\ ~(t[3] = 1 /\ t[5] > 0) /\ last_mt_queued_retry = 2) =>
            /\ last_mt_queued_retry' = 2
            /\ t[6] = 0 => CountOf(SESSION, EnqueuedNext) = 0]_vars

\* a received message resets the counter
C25_ResetOnReceived ==
    [][\A t \in OutcomeTuples :
        (HandlesNext(t) /\ t[3] = 1 /\ t[5] > 0) => last_mt_queued_retry' = 0]_vars

\* C25: the MT retry is bounded: the retry counter stays within 0..2; a
\* failed session (mt_status > 1, mt_queued = 0) with last_mt_queued > 1 and
\* a counter below 2 increments the counter and, with auto_read on,
\* enqueues SESSION again; once the counter is 2 no retry SESSION is
\* enqueued until a session with mt_status = 1 and mt_length > 0 resets the
\* counter to 0.
C25_RetryBounded ==
    /\ []C25_CounterBounded
    /\ C25_Retries
    /\ C25_StopsAtTwo
    /\ C25_ResetOnReceived

\* a failed session handled with the counter at 2: nothing is enqueued
\* but CLEAR_MO_BUFFER
C25_Witness ==
    /\ step.op = "ok"
    /\ step.reg = SESSION
    /\ SessionAnswer(step.data, <<4, 42, 2, 0, 0, 0>>)
    /\ last_mt_queued_retry = 2
    /\ last_mt_queued = 2
    /\ options[AUTO_READ]
    /\ Enqueued = <<CLEAR_MO_BUFFER>>

(***************************************************************************)
(* Specification SpecRing: the listener thread and a caller that checks    *)
(* the ring indicator, with a modem that answers +CRIS lines; the options  *)
(* telephone and auto_read are on or off.                                  *)
(***************************************************************************)
RingPairs == {<<0, 0>>, <<1, 0>>, <<0, 1>>, <<1, 2>>}

\* room for an answer and its OK
MaxRingBuf == Len(LineCRIS(1, 2)) + Len(LineOK)

InitRing ==
    /\ InitHost
    /\ options \in {[DEFAULT_OPTIONS EXCEPT ![AUTO_READ] = a, ![TELEPHONE] = t] :
                        a \in BOOLEAN, t \in BOOLEAN}

NextRing ==
    \/ ListenerReads({LineOK} \cup {LineCRIS(p[1], p[2]) : p \in RingPairs}, MaxRingBuf)
    \/ ListenerPending
    \/ ListenerUnsolicited
    \/ CallerRequests({CHECK_RING})

SpecRing == InitRing /\ [][NextRing]_vars

RingAnswer(data, p) == StartsAt(LineCRIS(p[1], p[2]), data, Find(CRIS_TAG, data))

\* C26: handling a CHECK_RING response fires check_ring_updated(tri, sri)
\* and enqueues SESSION if and only if sri > 0, the option telephone is
\* false and the option auto_read is true.
C26_RingOutcome ==
    \A p \in RingPairs :
        (step.op = "ok" /\ step.reg = CHECK_RING /\ RingAnswer(step.data, p)) =>
            /\ \E k \in FiredOf("check_ring_updated") : fired[k].args = p
            /\ Enqueued = (IF p[2] > 0 /\ ~options[TELEPHONE] /\ options[AUTO_READ]
                           THEN <<SESSION>> ELSE <<>>)

\* a ring is reported while the telephone option is on: no SESSION
C26_Witness ==
    /\ step.op = "ok"
    /\ step.reg = CHECK_RING
    /\ RingAnswer(step.data, <<1, 2>>)
    /\ options[TELEPHONE]
    /\ options[AUTO_READ]
    /\ Enqueued = <<>>
    /\ FiredOf("check_ring_updated") # {}

(***************************************************************************)
(* Specification SpecClear: the listener thread and a caller that clears   *)
(* the MO buffer, the MT buffer or both, with a modem that echoes the      *)
(* command or not and answers 0 or 1.                                      *)
(***************************************************************************)
ClearCommands == {CLEAR_MO_BUFFER, CLEAR_MT_BUFFER, CLEAR_BOTH_BUFFERS}

\* the echo of a command, and a status line
EchoLine(command) == command \o CR

StatusLine(digit) == CRLF \o <<digit>> \o CRLF

\* room for an echo, a status and the OK
MaxClearBuf == Len(EchoLine(CLEAR_MT_BUFFER)) + Len(StatusLine(48)) + Len(LineOK)

NextClear ==
    \/ ListenerReads({LineOK, StatusLine(48), StatusLine(49)}
                         \cup {EchoLine(c) : c \in ClearCommands}, MaxClearBuf)
    \/ ListenerPending
    \/ ListenerUnsolicited
    \/ CallerRequests(ClearCommands)

SpecClear == Init /\ [][NextClear]_vars

\* the response with the echo of every clear-buffer command removed
WithoutEchoes(data) ==
    Remove(Remove(Remove(data, CLEAR_MO_BUFFER), CLEAR_MT_BUFFER), CLEAR_BOTH_BUFFERS)

\* command_finished of the step reports what the response without echoes
\* strips to
ReportsStripped ==
    \E k \in FiredOf("command_finished") :
        fired[k].args = <<step.reg, Strip(WithoutEchoes(step.data)) = <<48>>, step.data>>

\* a response that holds no echo of CLEAR_MT_BUFFER is reported by what it
\* strips to
C27_OtherEchoes ==
    (/\ step.op = "ok"
     /\ step.reg \in ClearCommands
     /\ ~Contains(CLEAR_MT_BUFFER, step.data)) => ReportsStripped

\* C27: for each of the three clear-buffer commands, with or without the
\* echo of the command in the response, command_finished reports success
\* if and only if the response with the clear-command echo removed strips
\* to the single byte '0'.
C27_ClearSuccess ==
    (step.op = "ok" /\ step.reg \in ClearCommands) => ReportsStripped

\* the step consumed the OK of a status response and data is that response
StatusParsed(data) == step.op = "ok" /\ data = step.data

\* C28: command_finished for a write-binary command AT+SBDWB=<n> is fired
\* when the status line that follows the payload (status, then OK) has been
\* parsed, and reports success if and only if the last non-whitespace byte
\* of that status response is '0'.
C28_WriteBinaryStatus ==
    \A k \in FiredOf("command_finished") :
        StartsWith(fired[k].args[1], WRITE_BINARY) =>
            /\ StatusParsed(fired[k].args[3])
            /\ fired[k].args[2] = (/\ Strip(step.data) # <<>>
                                   /\ Strip(step.data)[Len(Strip(step.data))] = 48)

(***************************************************************************)
(* Specification SpecIdle: the listener thread alone, with nothing pending *)
(* and nothing queued, and a modem that sends complete lines.              *)
(***************************************************************************)
MaxIdleBuf == 21

\* b'noise\r\n' and b'OK\r\n'
IdleLines == {<<110, 111, 105, 115, 101>> \o CRLF, LineOK}

NextIdle ==
    \/ ListenerReads(IdleLines, MaxIdleBuf)
    \/ ListenerUnsolicited

SpecIdle == Init /\ [][NextIdle]_vars

\* the length of the longest idle line, its line break included
LongestIdleLine == CHOOSE n \in {Len(l) : l \in IdleLines} : \A l \in IdleLines : Len(l) <= n

\* C29: after an idle tick (nothing pending, no SBDRING in the buffer,
\* nothing queued) the read buffer holds only what was received after the
\* last line break: with complete lines coming in, the buffer is never
\* longer than the longest single line and holds no complete earlier line,
\* in particular no stale OK.
C29_IdleTrim ==
    step.op = "trim" =>
        /\ Len(read_buf) <= LongestIdleLine
        /\ ~Contains(OK, read_buf)

(***************************************************************************)
(* Specification SpecQueue: the listener thread, which enqueues SESSION    *)
(* for a ring alert, and a caller that enqueues AT-MSSTM as often as it    *)
(* likes, with a modem that answers OK.                                    *)
(***************************************************************************)
\* room for a ring alert and an OK
MaxQueueBuf == Len(LineRING) + Len(LineOK)

ListenerReadsAny ==
    \E data \in {LineOK, LineRING, <<>>} :
        /\ Len(read_buf) + Len(data) <= MaxQueueBuf
        /\ check_io(data)
        /\ UNCHANGED <<env_vars, life_vars>>

CallerQueuesAny ==
    /\ cpc = "out"
    /\ queue_command(SYSTEM_TIME)
    /\ UNCHANGED <<cpc, scope, env_vars, life_vars>>

NextQueue ==
    \/ ListenerReadsAny
    \/ ListenerPending
    \/ ListenerUnsolicited
    \/ CallerQueuesAny

SpecQueue == Init /\ [][NextQueue]_vars

\* the sequential queue never holds more than 100 commands
C30_Capacity == Len(sequential_write_queue) <= QueueCapacity

\* a pop takes the oldest command of the queue, makes it pending and writes it
C30_PopsOldest ==
    [][step'.op = "pop" =>
        /\ sequential_write_queue # <<>>
        /\ previous_command' = Head(sequential_write_queue)
        /\ sequential_write_queue' = Tail(sequential_write_queue)
        /\ wrote' = <<Head(sequential_write_queue) \o CR>>]_vars

\* an enqueue, by a caller or by the listener, puts the command behind all
\* the commands that wait and removes none of them
C30_EnqueuesBehind ==
    [][/\ step'.op = "queue_command" =>
            sequential_write_queue' = Append(sequential_write_queue, step'.cmd)
       /\ step'.op = "ring" =>
            \/ sequential_write_queue' = sequential_write_queue
            \/ sequential_write_queue' = Append(sequential_write_queue, SESSION)]_vars

\* C30: the sequential write queue is a FIFO of capacity 100: it never
\* holds more than 100 commands, and the commands are popped and written in
\* exactly the order in which they were enqueued, by the listener thread or
\* by a caller: an enqueue puts the command behind those that wait, a pop
\* takes the oldest.
C30_BoundedFifo ==
    /\ []C30_Capacity
    /\ C30_PopsOldest
    /\ C30_EnqueuesBehind

\* C31: every command accepted by queue_command is written to the port
\* exactly once: a command that waits in the sequential queue leaves it only
\* in the step that writes it, and an enqueue onto a queue that holds 100
\* commands discards none of them.
C31_LeavesOnlyWhenWritten ==
    [][LET accepted == IF step'.op = "queue_command" THEN 1 ELSE 0
       IN  Len(sequential_write_queue') < Len(sequential_write_queue) + accepted =>
               /\ sequential_write_queue # <<>>
               /\ accepted = 0
               /\ sequential_write_queue' = Tail(sequential_write_queue)
               /\ wrote' = <<Head(sequential_write_queue) \o CR>>]_vars

(***************************************************************************)
(* The emulator's write_serial: an MT message is put into its queue and    *)
(* the ring alert SBDRING is written to the line.                          *)
(***************************************************************************)
MaxMtMessage == 270

ServerWriteSerial(msg) ==
    /\ Len(msg) <= MaxMtMessage
    /\ EmulatorStep([e |-> [emu EXCEPT !.mt_queue = DequeAppend(@, msg)],
                     out |-> RING \o LF],
                    "write_serial")
    /\ UNCHANGED to_modem

(***************************************************************************)
(* Specification SpecAnswers: the host and the emulator on one serial      *)
(* line, auto_read off.  While the line is quiet an MT message is put into *)
(* the emulator's queue, or the caller requests the signal quality or      *)
(* reads an MT message with read_binary_message().                         *)
(***************************************************************************)
Hi == <<104, 105>>

InitAnswers == InitHost /\ options = [DEFAULT_OPTIONS EXCEPT ![AUTO_READ] = FALSE]

\* at most MaxMail messages arrive
MaxMail == 2

MailArrives ==
    /\ LineQuiet
    /\ emu.mt_queue = <<>>
    /\ emu.session_counter < MaxMail
    /\ ServerWriteSerial(Hi)

CallerAsks ==
    /\ LineQuiet
    /\ read_buf = <<>>
    /\ \E c \in {SIGNAL_QUALITY, READ_BINARY} : request(c)
    /\ Transmit
    /\ UNCHANGED <<cpc, scope, wire, emu, life_vars>>

NextAnswers ==
    \/ WiredReads
    \/ WiredPending
    \/ WiredUnsolicited
    \/ ServerListens
    \/ MailArrives
    \/ CallerAsks

SpecAnswers == InitAnswers /\ [][NextAnswers]_vars

\* the emulator has answered every command it was sent and the host has
\* read all of it
AllAnswered == wire = <<>> /\ to_modem = <<>> /\ emu.pc = "listen"

\* C32: once the modem's complete response to the pending command, its OK
\* included, is in the read buffer, the listener's pass over it fires
\* command_finished for the command and clears the register: no pass puts
\* a complete response back, also not the bare OK that answers READ_BINARY
\* when the modem has no MT message.
C32_CompleteResponseFinishes ==
    (step.op = "deferred" /\ Contains(OK, step.buf)) => ~AllAnswered

\* C33: an SBDRING that reaches the read buffer while a command is pending,
\* before or after the OK of that command, is not lost: it leaves the
\* buffer only in the step that handles it, after which SESSION is queued.
C33_RingNotLost ==
    [][(Contains(RING, read_buf) /\ ~Contains(RING, read_buf')) =>
        /\ step'.op = "ring"
        /\ InQueue(SESSION, sequential_write_queue')]_vars

\* an SBDRING that follows the OK of the pending command stays in the buffer
\* when the OK is consumed
C33_AfterOkKept ==
    [][(step'.op = "ok" /\ Contains(RING, SliceFrom(read_buf, Find(OK, read_buf)))) =>
        Contains(RING, read_buf')]_vars

(***************************************************************************)
(* Specification SpecMail: the host, auto_read on, and the emulator on one *)
(* serial line.  MT messages are put into the emulator's queue while the   *)
(* host is idle; the host fetches them on its own.  lifelog is the         *)
(* sequence of message callbacks the sink has received, emu.got the number *)
(* of messages put into the queue so far.  SpecMailFair adds that the      *)
(* threads of host and emulator keep running and that bytes on the line    *)
(* are read.                                                               *)
(***************************************************************************)
\* the k-th message: b'hi', b'OK!', 270 bytes b'a', and again
Mail(k) ==
    IF k % 3 = 1 THEN Hi
    ELSE IF k % 3 = 2 THEN OK \o <<33>>
    ELSE Run(97, MaxMtMessage)

HostIdle == previous_command = None /\ sequential_write_queue = <<>>

MailEnqueued(msgs) ==
    /\ HostIdle
    /\ emu.got < MaxMail
    /\ \E msg \in msgs :
        /\ Len(msg) <= MaxMtMessage
        /\ EmulatorStep([e |-> [emu EXCEPT !.mt_queue = DequeAppend(@, msg),
                                           !.got = @ + 1],
                         out |-> RING \o LF],
                        "write_serial")
    /\ UNCHANGED to_modem

NextMailArrives == MailEnqueued({Mail(emu.got + 1)})

\* the listener's pass over a pending command; the sink keeps the message
\* callbacks
MailPending ==
    /\ check_pending_command
    /\ Transmit
    /\ lifelog' = lifelog \o SelectSeq(fired', LAMBDA e : e.sig \in {"message_received",
                                                                    "message_receive_failed"})
    /\ UNCHANGED <<wire, emu, connected, active, listen_thread, threads, conn, signal, acq>>

\* the host's read returns the bytes on the line up to the end of a line
WiredReadsLine ==
    /\ wire # <<>>
    /\ check_io(Slice(wire, 0, ReadLineMax(wire)))
    /\ wire' = SliceFrom(wire, ReadLineMax(wire))
    /\ UNCHANGED <<to_modem, emu, life_vars>>

\* the host's read times out with nothing read
WiredReadsNothing ==
    /\ check_io(<<>>)
    /\ UNCHANGED <<env_vars, life_vars>>

NextMail ==
    \/ WiredReadsLine
    \/ WiredReadsNothing
    \/ MailPending
    \/ WiredUnsolicited
    \/ ServerListens
    \/ NextMailArrives

SpecMail == Init /\ [][NextMail]_vars

\* The threads of host and emulator keep running and bytes on the line are
\* read.  MailPending is enabled exactly when lpc = "pending" and
\* ServerListens exactly when the emulator listens and bytes wait for it,
\* and each of them ends that condition: their weak fairness is stated by
\* the condition being false again and again.
ListenerPassesEnd == []<>(lpc # "pending")

ServerAnswers == []<>(to_modem = <<>> \/ emu.pc # "listen")

SpecMailFair ==
    /\ SpecMail
    /\ SF_vars(WiredReadsLine)
    /\ WF_vars(WiredReadsLine \/ WiredReadsNothing)
    /\ WF_vars(WiredUnsolicited)
    /\ ListenerPassesEnd
    /\ ServerAnswers

\* the callbacks the sink has received are message_received for the first
\* messages enqueued, in their order and with their content
C34_InOrder ==
    /\ Len(lifelog) <= emu.got
    /\ \A k \in 1..Len(lifelog) :
        /\ lifelog[k].sig = "message_received"
        /\ lifelog[k].args = <<Mail(k)>>

\* every message enqueued is delivered in the end
C34_Delivered == \A n \in 1..MaxMail : (emu.got = n) ~> (Len(lifelog) >= n)

AnyMailArrives == MailEnqueued({<<>>, Hi})

ServerListensCapped ==
    /\ emu.session_counter <= 2 * MaxMail
    /\ ServerListens

NextMailAny ==
    \/ WiredReadsLine
    \/ WiredReadsNothing
    \/ MailPending
    \/ WiredUnsolicited
    \/ ServerListensCapped
    \/ AnyMailArrives

SpecMailAny == Init /\ [][NextMailAny]_vars

\* C35: the auto-read loop ends: whatever the emulator's queue holds
\* (messages of 0 to 270 bytes), the host issues only finitely many SESSION
\* commands after a ring: one for a ring and one more for every message it
\* reads, so never more than twice the number of messages enqueued.
C35_SessionsBounded == emu.session_counter <= 2 * emu.got

(***************************************************************************)
(* Specification SpecFinish: the end of the OK branch as the two           *)
(* statements it is, signal.command_finished(...) (line 1027) and          *)
(* self._previous_command = None (line 1028), with a caller thread that    *)
(* issues requests at any time.  The log keeps every command written and   *)
(* every command_finished fired.                                           *)
(***************************************************************************)
MaxRequests == 2

WrittenEvents(ws) == [k \in 1..Len(ws) |-> Ev("written", <<ws[k]>>)]

FinishedEvents(evs) == SelectSeq(evs, LAMBDA e : e.sig = "command_finished")

\* the commands written and the command_finished events fired by the step
LogsStep ==
    /\ lifelog' = lifelog \o FinishedEvents(fired') \o WrittenEvents(wrote')
    /\ UNCHANGED <<env_vars, connected, active, listen_thread, threads, conn, signal, acq>>

WrittenCount(cmd) ==
    Cardinality({k \in 1..Len(lifelog) : lifelog[k] = Ev("written", <<cmd \o CR>>)})

FinishedCount(cmd) ==
    Cardinality({k \in 1..Len(lifelog) :
                    /\ lifelog[k].sig = "command_finished"
                    /\ lifelog[k].args[1] = cmd})

\* check_pending_command with OK in the buffer, up to and including the
\* command_finished callback (889-1027)
FinishFires ==
    /\ lpc = "pending"
    /\ Contains(OK, read_buf)
    /\ PendingOkThen(previous_command, OkSplit(previous_command, read_buf),
                     previous_command, "fires")
    /\ lpc' = IF step'.op = "fires" THEN "clear" ELSE "read"
    /\ UNCHANGED <<options, port_open, cpc>>
    /\ LogsStep

\* self._previous_command = None (1028)
FinishClears ==
    /\ lpc = "clear"
    /\ previous_command' = None
    /\ lpc' = "read"
    /\ fired' = <<>>
    /\ wrote' = <<>>
    /\ step' = [op |-> "clear", reg |-> previous_command]
    /\ UNCHANGED <<read_buf, sequential_write_queue, write_queue, last_mt_queued,
                   last_mt_queued_retry, serial_number, options, port_open, cpc, scope,
                   seq_origin>>
    /\ LogsStep

\* check_pending_command with no OK in the buffer
FinishWaits ==
    /\ ~Contains(OK, read_buf)
    /\ check_pending_command
    /\ LogsStep

\* a caller thread's request operation
FinishRequests ==
    \E c \in {PING, SIGNAL_QUALITY} :
        /\ cpc = "out"
        /\ WrittenCount(PING) + WrittenCount(SIGNAL_QUALITY) < MaxRequests
        /\ request(c)
        /\ UNCHANGED <<cpc, scope>>
        /\ LogsStep

NextFinish ==
    \/ ListenerReads({LineOK}, MaxBuf)
    \/ FinishFires
    \/ FinishClears
    \/ FinishWaits
    \/ ListenerUnsolicited
    \/ FinishRequests

SpecFinish == Init /\ [][NextFinish]_vars

\* C36: command_finished fires at most once for a command written, and when
\* the register is seen to be none command_finished has fired for every
\* command written: the register goes from a command to none only together
\* with that command's command_finished.
C36_FinishedOncePerWritten ==
    \A cmd \in {PING, SIGNAL_QUALITY} :
        /\ FinishedCount(cmd) <= WrittenCount(cmd)
        /\ previous_command = None => WrittenCount(cmd) <= FinishedCount(cmd)

\* C36: a command_finished fires at most once for a command written
C36_AtMostOnce ==
    \A cmd \in {PING, SIGNAL_QUALITY} : FinishedCount(cmd) <= WrittenCount(cmd)

\* C36: the listener clears the register it reported
C36_ClearsWhatItReported ==
    step.op = "clear" =>
        /\ lifelog # <<>>
        /\ \E k \in 1..Len(lifelog) :
               /\ lifelog[k].sig = "command_finished"
               /\ lifelog[k].args[1] = step.reg

\* connect has raised IridiumError
ConnectFailed == conn.pc = "failed"

\* is_connected() is false, the listener is not running, the port is closed
\* and connected was not fired
TornDown ==
    /\ ~is_connected
    /\ ~is_listening
    /\ \A t \in ListenerThreads : ~InLoop(t)
    /\ ~port_open
    /\ ~Logged("connected")

\* C37: when connect has failed, because the port did not open or a
\* configuration command or a ping was not acknowledged, the engine is torn
\* down: is_connected() is false, the listener is not running, the serial
\* port is closed and connected was not fired.
C37_FailedConnectTornDown == ConnectFailed => TornDown

\* C37: the part of the claim about a ping that is not acknowledged
C37_AfterPing == (ConnectFailed /\ conn.stage >= 3) => TornDown

(***************************************************************************)
(* Specification SpecServer: the emulator alone.  A peer at the other end  *)
(* of the line writes one command at a time, after it has read what the    *)
(* emulator wrote, and the payload of a write-binary command; the          *)
(* application enqueues MT messages.  The counters start at 0 or at 0xffff.*)
(***************************************************************************)
CounterStarts == {0, 65535}

InitServer ==
    /\ InitLife
    /\ options = DEFAULT_OPTIONS
    /\ \E sc \in CounterStarts, msn \in CounterStarts :
           InitEngineWith([InitEmu EXCEPT !.session_counter = sc, !.mt_msn = msn])

PeerStep(op, cmd) ==
    /\ step' = [op |-> op, reg |-> previous_command, cmd |-> cmd]
    /\ fired' = <<>>
    /\ wrote' = <<>>
    /\ UNCHANGED <<host_vars, lpc, cpc, scope, seq_origin, emu, life_vars>>

PeerCommands == {PING, ECHO_ON, ECHO_OFF, SESSION, READ_BINARY, WriteBinaryCommand(Hi)}

\* the peer reads what is on the line and writes a command
PeerWrites ==
    \E cmd \in PeerCommands :
        /\ emu.pc = "listen"
        /\ to_modem = <<>>
        /\ cmd = SESSION => (emu.session_counter + 1) % 65536 <= MaxMail
        /\ to_modem' = cmd \o CR
        /\ wire' = <<>>
        /\ PeerStep("peer", cmd)

\* the peer, after READY, writes the payload and a checksum, right or wrong
PeerWritesPayload ==
    \E check \in {Checksum(Hi), <<0, 0>>} :
        /\ emu.pc = "wb"
        /\ to_modem = <<>>
        /\ to_modem' = Hi \o check
        /\ UNCHANGED wire
        /\ PeerStep("peer_payload", Hi \o check)

NextServer ==
    \/ PeerWrites
    \/ PeerWritesPayload
    \/ ServerListens
    \/ ServerReadsPayload
    \/ NextMailArrives

SpecServer == InitServer /\ [][NextServer]_vars

\* the emulator handles the one command cmd that is on the line
ServerHandles(cmd) ==
    /\ emu.pc = "listen"
    /\ emu.buf = <<>>
    /\ to_modem = cmd \o CR
    /\ step'.op = "server"

\* what the emulator wrote in the step
ServerOutput == SliceFrom(wire', Len(wire))

\* C38: the emulator's reply to SESSION reports the mo_status and the
\* counters it holds, mt_status 1 exactly when its message queue is not
\* empty, the length of the queue's head (0 when empty) and the number of
\* messages behind the head; handling SESSION leaves the queue unchanged,
\* increments the session counter and the MT MSN modulo 0x10000 and resets
\* mo_status to 0.
C38_SessionReply ==
    [][ServerHandles(SESSION) =>
          LET r == parse_session(Slice(ServerOutput, 0, Find(OK, ServerOutput)))
              q == emu.mt_queue
          IN  /\ r.ok
              /\ r.mo_status = emu.mo_status
              /\ r.mo_msn = emu.session_counter
              /\ r.mt_status = 1 <=> q # <<>>
              /\ r.mt_status \in {0, 1}
              /\ r.mt_msn = emu.mt_msn
              /\ r.mt_length = (IF q = <<>> THEN 0 ELSE Len(Head(q)))
              /\ r.mt_queued = Max(Len(q) - 1, 0)
              /\ emu'.mt_queue = q
              /\ emu'.session_counter = (emu.session_counter + 1) % 65536
              /\ emu'.mt_msn = (emu.mt_msn + 1) % 65536
              /\ emu'.mo_status = 0]_vars

\* C38: a session was answered with two messages queued, a status left by a
\* write-binary command and a counter that wrapped to 0
C38_Witness ==
    /\ step.op = "server"
    /\ Contains(SBDIX_TAG \o <<32>> \o Dec(18) \o <<44>> \o Dec(65535) \o <<44, 49, 44>>, wire)
    /\ Len(emu.mt_queue) = 2
    /\ emu.session_counter = 0
    /\ emu.mo_status = 0


\* the number of OK terminators in the bytes s
RECURSIVE OkCount(_)
OkCount(s) == IF ~Contains(OK, s) THEN 0 ELSE 1 + OkCount(SliceFrom(s, Find(OK, s) + Len(OK)))

\* C39: after AT+SBDWB=<n> and READY the emulator reads n + 2 bytes, over
\* several reads if need be, and ends with mo_status 1 when the checksum
\* matches the content and 18 when it does not or when the bytes do not
\* arrive in time, writing one status line followed by exactly one OK.
C39_WriteBinaryOutcome ==
    [][step'.op = "payload" =>
          /\ emu'.mo_status \in {1, 18}
          /\ OkCount(ServerOutput) = 1]_vars

\* C39: a payload read in one piece ends with status 1 or 18 and one OK
C39_WholePayload ==
    [][(step'.op = "payload" /\ Len(to_modem) - Len(to_modem') >= emu.need) =>
          /\ emu'.mo_status =
                 (IF SliceFrom(to_modem, Len(to_modem) - 2) = Checksum(Hi) THEN 1 ELSE 18)
          /\ OkCount(ServerOutput) = 1]_vars

\* the command is at the head of what the emulator wrote
Echoed(cmd) == StartsWith(ServerOutput, cmd)

\* C40: the emulator writes a command back in front of its response exactly
\* when its echo option is true at that moment, and never for ECHO_OFF; the
\* reply to READ_BINARY follows the rule with or without a message queued.
C40_EchoRule ==
    [][\A cmd \in PeerCommands :
           ServerHandles(cmd) => (Echoed(cmd) <=> (emu'.echo /\ cmd # ECHO_OFF))]_vars

\* C40: the rule for every command but READ_BINARY
C40_OtherCommands ==
    [][\A cmd \in PeerCommands \ {READ_BINARY} :
           ServerHandles(cmd) => (Echoed(cmd) <=> (emu'.echo /\ cmd # ECHO_OFF))]_vars

====
